---- MODULE Spec2Model ----
(***************************************************************************)
(* Upload tracking of the URLUploader component                            *)
(* (src/src/components/FileUploader.tsx): the status normalizer, the       *)
(* process store with its persistence, the poller and the calls it makes   *)
(* on the notification context.                                            *)
(***************************************************************************)
EXTENDS Integers, Sequences, FiniteSets, Bags, TLC

(***************************************************************************)
(* Strings that the code inspects character by character are sequences of  *)
(* one-character strings, so that toLowerCase is a computation.            *)
(***************************************************************************)
LowerChars ==
  << "a", "b", "c", "d", "e", "f", "g", "h", "i", "j", "k", "l", "m",
     "n", "o", "p", "q", "r", "s", "t", "u", "v", "w", "x", "y", "z" >>

UpperChars ==
  << "A", "B", "C", "D", "E", "F", "G", "H", "I", "J", "K", "L", "M",
     "N", "O", "P", "Q", "R", "S", "T", "U", "V", "W", "X", "Y", "Z" >>

Digits == {"0", "1", "2", "3", "4", "5", "6", "7", "8", "9"}

\* The letter tables as functions: the lower-case letter of an upper-case
\* one, and the reverse.
LowerOf ==
  [c \in {UpperChars[i] : i \in DOMAIN UpperChars} |->
     LowerChars[CHOOSE i \in DOMAIN UpperChars : UpperChars[i] = c]]

UpperOf ==
  [c \in {LowerChars[i] : i \in DOMAIN LowerChars} |->
     UpperChars[CHOOSE i \in DOMAIN LowerChars : LowerChars[i] = c]]

\* String.prototype.toLowerCase and toUpperCase on one character.
LowerChar(c) == IF c \in DOMAIN LowerOf THEN LowerOf[c] ELSE c

UpperChar(c) == IF c \in DOMAIN UpperOf THEN UpperOf[c] ELSE c

\* String.prototype.toLowerCase.
toLowerCase(s) == [i \in DOMAIN s |-> LowerChar(s[i])]

\* The words the normalizer knows, and some it does not.
W_completed == << "c", "o", "m", "p", "l", "e", "t", "e", "d" >>
W_finished == << "f", "i", "n", "i", "s", "h", "e", "d" >>
W_done == << "d", "o", "n", "e" >>
W_error == << "e", "r", "r", "o", "r" >>
W_failed == << "f", "a", "i", "l", "e", "d" >>
W_failed_with_errors ==
  << "f", "a", "i", "l", "e", "d", "_", "w", "i", "t", "h", "_",
     "e", "r", "r", "o", "r", "s" >>
W_cancelled == << "c", "a", "n", "c", "e", "l", "l", "e", "d" >>
W_in_progress ==
  << "i", "n", "_", "p", "r", "o", "g", "r", "e", "s", "s" >>
W_queued == << "q", "u", "e", "u", "e", "d" >>
W_canceled == << "c", "a", "n", "c", "e", "l", "e", "d" >>
W_complete == << "c", "o", "m", "p", "l", "e", "t", "e" >>
W_errors == << "e", "r", "r", "o", "r", "s" >>
W_document_processing ==
  << "d", "o", "c", "u", "m", "e", "n", "t", "_",
     "p", "r", "o", "c", "e", "s", "s", "i", "n", "g" >>
W_empty == << >>

(***************************************************************************)
(* A JavaScript value as the code receives it from JSON: undefined (the    *)
(* field is absent), null, a string, a number or a boolean.                *)
(***************************************************************************)
Undefined == [k |-> "undefined", s |-> << >>, n |-> 0]
Null == [k |-> "null", s |-> << >>, n |-> 0]
Str(s) == [k |-> "string", s |-> s, n |-> 0]
Num(n) == [k |-> "number", s |-> << >>, n |-> n]
\* Number("abc"), Number(undefined): not a number.
NaN == [k |-> "nan", s |-> << >>, n |-> 0]
True == [k |-> "boolean", s |-> << >>, n |-> 1]
False == [k |-> "boolean", s |-> << >>, n |-> 0]

\* ToBoolean: undefined, null, "", 0, NaN and false are falsy.
Truthy(v) ==
  CASE v.k = "undefined" -> FALSE
    [] v.k = "null" -> FALSE
    [] v.k = "nan" -> FALSE
    [] v.k = "string" -> v.s # << >>
    [] v.k = "number" -> v.n # 0
    [] v.k = "boolean" -> v.n = 1

\* The outcome of a call that may throw.
Threw == "threw"

\* normalizeApiStatus without the toLowerCase of 169.
normalizeApiStatusMutCase(status) ==
  IF ~Truthy(status) THEN "in_progress"
  ELSE IF status.k # "string" THEN Threw
  ELSE IF status.s \in {W_completed, W_finished, W_done} THEN "completed"
  ELSE IF status.s \in {W_error, W_failed, W_failed_with_errors, W_cancelled}
    THEN "error"
  ELSE "in_progress"

\* normalizeApiStatus, FileUploader.tsx 167-177. A truthy value that is not
\* a string has no toLowerCase: the call throws a TypeError.
normalizeApiStatus(status) ==
  IF ~Truthy(status) THEN "in_progress"
  ELSE IF status.k # "string" THEN Threw
  ELSE LET lowered == toLowerCase(status.s) IN
    IF lowered = W_completed \/ lowered = W_finished \/ lowered = W_done
      THEN "completed"
    ELSE IF lowered \in {W_error, W_failed, W_failed_with_errors, W_cancelled}
      THEN "error"
    ELSE "in_progress"


\* Number(v) for the values the model uses: a number is itself, null is 0,
\* undefined and a non-numeric string are NaN, a boolean is 0 or 1. The only
\* numeric strings of the model are the empty string (0) and "42".
W_42 == << "4", "2" >>
W_abc == << "a", "b", "c" >>

ToNumber(v) ==
  CASE v.k = "number" -> v
    [] v.k = "null" -> Num(0)
    [] v.k = "boolean" -> Num(v.n)
    [] v.k = "string" ->
         IF v.s = << >> THEN Num(0)
         ELSE IF v.s = W_42 THEN Num(42)
         ELSE NaN
    [] OTHER -> NaN

\* Number(x) || 0, FileUploader.tsx 274 and 440.
NumberOrZero(v) == IF Truthy(ToNumber(v)) THEN ToNumber(v).n ELSE 0

\* Number.isFinite(Number(x)) ? Number(x) : 0, FileUploader.tsx 99-102.
FiniteOrZero(v) == IF ToNumber(v).k = "number" THEN ToNumber(v).n ELSE 0

\* String(v), FileUploader.tsx 95, for the values the model uses.
W_undefined == << "u", "n", "d", "e", "f", "i", "n", "e", "d" >>
W_null == << "n", "u", "l", "l" >>
W_7 == << "7" >>

JsString(v) ==
  CASE v.k = "string" -> v.s
    [] v.k = "undefined" -> W_undefined
    [] v.k = "null" -> W_null
    [] v.k = "number" -> IF v.n = 42 THEN W_42 ELSE W_7
    [] OTHER -> W_undefined

(***************************************************************************)
(* Bounds of the model.                                                    *)
(***************************************************************************)
\* Successful submissions of a run.
MaxSubmits == 2
\* pollStatuses invocations in flight at the same time.
MaxTicks == 2
\* Requests of a run that end in the catch branch (each adds a warning).
MaxWarnings == 1
\* The history counter of bridge transitions saturates at FiredCap.
FiredCap == 2

\* The processing ids the backend issues.
Id_a == << "a" >>
Id_b == << "b" >>
Ids == {Id_a, Id_b}

\* notificationId: 0 is undefined, 1..MaxSubmits are the ids addNotification
\* returned to handleSubmit, in the order of the submissions.
NoNotification == 0
NotificationIds == 1 .. MaxSubmits

\* stage and message are opaque texts; "null" is null, "absent" an absent
\* field of a response.
Absent == "absent"

VARIABLES
  processes,      \* the processes state (and processesRef.current)
  storage,        \* localStorage["url_uploader_processes"]
  intervalRef,    \* pollingIntervalRef.current is not null
  liveTimers,     \* interval timers of the event loop that are not cleared
  ticks,          \* pollStatuses invocations in flight (a bag)
  lastId,         \* the last notification id handed to handleSubmit
  notif,          \* the notification context: type and autoClose per id
  warnings,       \* the notification context: the warnings added
  fired,          \* bridge transitions made per notification id (history)
  normIn,         \* status normalizer: the input
  normOut,        \* status normalizer: the result, "none" before the call
  loadIn,         \* state initializer: what localStorage holds
  loadOut,        \* state initializer: whether it ran, and its result
  form,           \* the fields of the form (useState 57-74)
  inflight,       \* POST requests of handleSubmit that await their response
  errors,         \* the notification context: the error notifications added
  mounted,        \* the component is mounted
  collIn,         \* collection names: the payload of GET /collections
  collOut,        \* collection names: whether they were read, and the list
  config,         \* APP_CONFIG: the settings in memory
  configStore     \* localStorage: the app_config_ keys

normVars == << normIn, normOut >>
loadVars == << loadIn, loadOut >>
formVars == << form, inflight, errors >>
mountVars == << mounted >>
collVars == << collIn, collOut >>
configVars == << config, configStore >>
notFormVars == << mountVars, collVars, configVars >>
notMountVars == << formVars, collVars, configVars >>
auxVars == << formVars, mountVars, collVars, configVars >>
vars ==
  << processes, storage, intervalRef, liveTimers, ticks, lastId, notif,
     warnings, fired, normIn, normOut, loadIn, loadOut, form, inflight,
     errors, mounted, collIn, collOut, config, configStore >>

(***************************************************************************)
(* The form of the uploader and its validation, FileUploader.tsx 57-74 and *)
(* 151-195. The texts a regular expression reads are sequences of          *)
(* characters.                                                             *)
(***************************************************************************)
W_manuales_collection ==
  << "m", "a", "n", "u", "a", "l", "e", "s", "_", "c", "o", "l", "l", "e",
     "c", "t", "i", "o", "n" >>
W_docs_1 == << "d", "o", "c", "s", "_", "1" >>
W_docs_2x == << "d", "o", "c", "s", " ", "2", "!" >>
W_embedding_001 ==
  << "e", "m", "b", "e", "d", "d", "i", "n", "g", "-", "0", "0", "1" >>
W_blank == << " ", " " >>
W_http == << "h", "t", "t", "p", ":", "/", "/" >>
W_https == << "h", "t", "t", "p", "s", ":", "/", "/" >>
W_host == << "e", "x", ".", "c", "o" >>
W_ftp == << "f", "t", "p", ":", "/", "/" >>

\* The state of the form after the first render, 57-74.
DefaultForm ==
  [input |-> W_empty,
   collectionName |-> W_manuales_collection,
   chunkingStrategy |-> "recursive_character",
   chunkSize |-> 1000,
   chunkOverlap |-> 200,
   maxFileSizeMb |-> 50,
   timeoutPerFile |-> 300,
   embeddingModel |-> W_embedding_001,
   batchSize |-> 90,
   retryAttempts |-> 3]

\* The characters of [a-zA-Z0-9_-].
NameChars ==
  {LowerChars[i] : i \in DOMAIN LowerChars}
    \cup {UpperChars[i] : i \in DOMAIN UpperChars} \cup Digits \cup {"_", "-"}

\* /^[a-zA-Z0-9_-]+$/.test(s), 180.
TestName(s) == s # << >> /\ \A i \in DOMAIN s : s[i] \in NameChars

\* /^https?:\/\//.test(s), 193.
TestUrl(s) ==
  \/ Len(s) >= Len(W_http) /\ SubSeq(s, 1, Len(W_http)) = W_http
  \/ Len(s) >= Len(W_https) /\ SubSeq(s, 1, Len(W_https)) = W_https

\* String.prototype.trim, for texts whose only white space is the blank.
RECURSIVE Trim(_)
Trim(s) ==
  IF s = << >> THEN s
  ELSE IF Head(s) = " " THEN Trim(Tail(s))
  ELSE IF s[Len(s)] = " " THEN Trim(SubSeq(s, 1, Len(s) - 1))
  ELSE s

\* strategyUsesChunkSize, 151-153.
strategyUsesChunkSize(strategy) ==
  strategy \notin {"semantic", "document_structure"}

\* validateConfig returns null or a message; the model names the message
\* by the field it is about.
NoConfigError == "null"

\* A validateConfig that accepts every URL.
validateConfigMutAnyUrl(f) ==
  IF ~TestName(f.collectionName) THEN "collection_name"
  ELSE IF strategyUsesChunkSize(f.chunkingStrategy)
            /\ (f.chunkSize < 100 \/ f.chunkSize > 5000)
    THEN "chunk_size"
  ELSE IF strategyUsesChunkSize(f.chunkingStrategy)
            /\ (f.chunkOverlap < 0 \/ f.chunkOverlap >= f.chunkSize)
    THEN "chunk_overlap"
  ELSE IF f.maxFileSizeMb < 1 \/ f.maxFileSizeMb > 1000
    THEN "max_file_size_mb"
  ELSE IF f.timeoutPerFile < 30 \/ f.timeoutPerFile > 3600
    THEN "timeout_per_file_seconds"
  ELSE IF f.batchSize < 1 \/ f.batchSize > 1000 THEN "batch_size"
  ELSE IF f.retryAttempts < 1 \/ f.retryAttempts > 10 THEN "retry_attempts"
  ELSE IF Trim(f.embeddingModel) = << >> THEN "embedding_model"
  ELSE NoConfigError

\* validateConfig, FileUploader.tsx 179-195.
validateConfig(f) ==
  IF ~TestName(f.collectionName) THEN "collection_name"
  ELSE IF strategyUsesChunkSize(f.chunkingStrategy)
            /\ (f.chunkSize < 100 \/ f.chunkSize > 5000)
    THEN "chunk_size"
  ELSE IF strategyUsesChunkSize(f.chunkingStrategy)
            /\ (f.chunkOverlap < 0 \/ f.chunkOverlap >= f.chunkSize)
    THEN "chunk_overlap"
  ELSE IF f.maxFileSizeMb < 1 \/ f.maxFileSizeMb > 1000
    THEN "max_file_size_mb"
  ELSE IF f.timeoutPerFile < 30 \/ f.timeoutPerFile > 3600
    THEN "timeout_per_file_seconds"
  ELSE IF f.batchSize < 1 \/ f.batchSize > 1000 THEN "batch_size"
  ELSE IF f.retryAttempts < 1 \/ f.retryAttempts > 10 THEN "retry_attempts"
  ELSE IF Trim(f.embeddingModel) = << >> THEN "embedding_model"
  ELSE IF f.input = << >> \/ ~TestUrl(f.input) THEN "url"
  ELSE NoConfigError

(***************************************************************************)
(* The settings of the application, appConfig.ts: APP_CONFIG, the keys of  *)
(* localStorage that hold them, the synchronisation when the module is     *)
(* loaded (70-126) and the setters (176-279). The texts are abbreviated.   *)
(***************************************************************************)
W_asistente == << "A", "s", "i", "s", "t", "e", "n", "t", "e" >>
W_preguntame == << "P", "r", "e", "g", "u", "n", "t", "a", "m", "e" >>
W_hola == << "H", "o", "l", "a" >>
W_escribe == << "E", "s", "c", "r", "i", "b", "e" >>
W_true == << "t", "r", "u", "e" >>
W_false == << "f", "a", "l", "s", "e" >>
W_blue == << "b", "l", "u", "e" >>
W_green == << "g", "r", "e", "e", "n" >>
W_yellow == << "y", "e", "l", "l", "o", "w" >>
W_orange == << "o", "r", "a", "n", "g", "e" >>
W_red == << "r", "e", "d" >>
W_violet == << "v", "i", "o", "l", "e", "t" >>

\* The keys of THEMES, themeManager.ts 33.
THEMES == {W_blue, W_green, W_yellow, W_orange, W_red, W_violet}

\* APP_CONFIG as the module defines it, 21-66: the settings that are
\* persisted.
APP_CONFIG ==
  [DEFAULT_COLLECTION |-> Str(W_manuales_collection),
   DEFAULT_TOP_K |-> Num(5),
   USE_RERANKING |-> False,
   USE_QUERY_REWRITING |-> False,
   FORCE_REBUILD |-> False,
   INITIAL_BOT_MESSAGE |-> Str(W_hola),
   DESCRIPTION |-> Str(W_preguntame),
   INPUT_PLACEHOLDER |-> Str(W_escribe),
   PROJECT_NAME |-> Str(W_asistente),
   ACTIVE_THEME |-> Str(W_blue)]

\* CONFIG_STORAGE_KEYS, 8-19: one key of localStorage per setting; getItem
\* gives null for a key that was never written.
NoSettings == [key \in DOMAIN APP_CONFIG |-> Null]

FlagSettings == {"USE_RERANKING", "USE_QUERY_REWRITING", "FORCE_REBUILD"}

DigitChars == << "0", "1", "2", "3", "4", "5", "6", "7", "8", "9" >>

\* String(n) for a natural number n.
RECURSIVE DecimalOf(_)
DecimalOf(n) ==
  IF n < 10 THEN << DigitChars[n + 1] >>
  ELSE DecimalOf(n \div 10) \o << DigitChars[(n % 10) + 1] >>

\* Number(s) for a text of digits; the empty text is 0, any other text is
\* not a number.
RECURSIVE DigitsValue(_)
DigitsValue(s) ==
  IF s = << >> THEN 0
  ELSE 10 * DigitsValue(SubSeq(s, 1, Len(s) - 1))
         + (CHOOSE d \in 0 .. 9 : DigitChars[d + 1] = s[Len(s)])

ParseNumber(s) ==
  IF \A i \in DOMAIN s : s[i] \in Digits THEN Num(DigitsValue(s)) ELSE NaN

\* String(value), 196-223: what a setter writes for a number or a boolean.
TextOf(v) ==
  CASE v.k = "string" -> v.s
    [] v.k = "number" -> DecimalOf(v.n)
    [] v.k = "boolean" -> IF v.n = 1 THEN W_true ELSE W_false

\* The synchronisation of one setting, 71-122: the value of the key in
\* localStorage, or the value of the module when the key is not taken.
StoredSetting(key, stored, default) ==
  IF key \in FlagSettings
    THEN IF stored # Null
           THEN (IF stored.s = W_true THEN True ELSE False)
           ELSE default
  ELSE IF key = "DEFAULT_TOP_K"
    THEN IF Truthy(stored) /\ ParseNumber(stored.s).k = "number"
              /\ ParseNumber(stored.s).n > 0
           THEN ParseNumber(stored.s)
           ELSE default
  ELSE IF key = "ACTIVE_THEME"
    THEN IF Truthy(stored) /\ stored.s \in THEMES THEN stored ELSE default
  ELSE IF Truthy(stored) THEN stored ELSE default

\* The module is loaded: APP_CONFIG as defined, then the synchronisation.
ModuleLoad(store) ==
  [key \in DOMAIN APP_CONFIG |-> StoredSetting(key, store[key], APP_CONFIG[key])]

(***************************************************************************)
(* The variables of the form, the mounting, the collection names and the   *)
(* settings before they are used.                                          *)
(***************************************************************************)
\* The result of normalizeCollectionNames, and the time before the call.
NoNames == [done |-> FALSE, names |-> << >>]
Names(names) == [done |-> TRUE, names |-> names]

\* The form, the mounting and the collection names before they are used.
FormInit ==
  /\ form = DefaultForm
  /\ inflight = 0
  /\ errors = << >>

MountInit == mounted = TRUE

CollInit ==
  /\ collIn = Undefined
  /\ collOut = NoNames

ConfigInit ==
  /\ configStore = NoSettings
  /\ config = ModuleLoad(configStore)

AuxInit == FormInit /\ MountInit /\ CollInit /\ ConfigInit

(***************************************************************************)
(* The process store: loading, persisting, the active set.                 *)
(***************************************************************************)
\* A value of localStorage["url_uploader_processes"]: no key, a text that
\* is not JSON, JSON that is not an array, or an array of elements. An
\* element is null or an object whose fields are JavaScript values.
NoKey == [kind |-> "absent", items |-> << >>]
NotJson == [kind |-> "garbage", items |-> << >>]
NotArray == [kind |-> "notarray", items |-> << >>]
ArrayOf(items) == [kind |-> "array", items |-> items]

NullItem ==
  [isNull |-> TRUE, processingId |-> Undefined, collectionName |-> Absent,
   sourceUrl |-> Absent, status |-> Undefined, percentage |-> Undefined,
   stage |-> Absent, message |-> Absent, notificationId |-> NoNotification]

Item(id, status, percentage, nid) ==
  [isNull |-> FALSE, processingId |-> id, collectionName |-> "docs",
   sourceUrl |-> "https://ex.com/doc.pdf", status |-> status,
   percentage |-> percentage, stage |-> Absent, message |-> Absent,
   notificationId |-> nid]

\* x ?? d on an opaque text.
Coalesce(x, d) == IF x \in {Absent, "null"} THEN d ELSE x

\* The mapping of one persisted element, FileUploader.tsx 94-107. Reading a
\* field of null throws, and so does normalizeApiStatus on a truthy value
\* that is not a string.
LoadItemThrows(item) ==
  item.isNull \/ normalizeApiStatus(item.status) = Threw

\* A mapping that does not read the persisted status.
LoadItemMutNoStatus(item) ==
  [processingId |-> JsString(item.processingId),
   collectionName |-> Coalesce(item.collectionName, ""),
   sourceUrl |-> Coalesce(item.sourceUrl, ""),
   status |-> "in_progress",
   percentage |-> FiniteOrZero(item.percentage),
   stage |-> Coalesce(item.stage, "null"),
   message |-> Coalesce(item.message, "null"),
   notificationId |-> item.notificationId]

LoadItem(item) ==
  [processingId |-> JsString(item.processingId),
   collectionName |-> Coalesce(item.collectionName, ""),
   sourceUrl |-> Coalesce(item.sourceUrl, ""),
   status |-> normalizeApiStatus(item.status),
   percentage |-> FiniteOrZero(item.percentage),
   stage |-> Coalesce(item.stage, "null"),
   message |-> Coalesce(item.message, "null"),
   notificationId |-> item.notificationId]

\* An initializer that rejects the records whose status is no string.
LoadProcessesMutStrict(st) ==
  IF st.kind # "array" THEN << >>
  ELSE IF \E i \in DOMAIN st.items : LoadItemThrows(st.items[i]) THEN << >>
  ELSE LET kept == SelectSeq(st.items, LAMBDA item : item.status.k = "string")
       IN SelectSeq([i \in DOMAIN kept |-> LoadItem(kept[i])],
                    LAMBDA p : p.processingId # << >>)

\* The initial state of processes, FileUploader.tsx 81-113: any throw of
\* the mapping is caught and yields the empty list; the filter keeps the
\* elements whose processingId is a non-empty string.
LoadProcesses(st) ==
  IF st.kind # "array" THEN << >>
  ELSE IF \E i \in DOMAIN st.items : LoadItemThrows(st.items[i]) THEN << >>
  ELSE SelectSeq([i \in DOMAIN st.items |-> LoadItem(st.items[i])],
                 LAMBDA p : p.processingId # << >>)

\* The state initializer before it ran, and after it returned procs.
NotLoaded == [done |-> FALSE, procs |-> << >>]

Loaded(procs) == [done |-> TRUE, procs |-> procs]

\* JSON.stringify of a status: the text of the enum value.
StatusText(status) ==
  CASE status = "completed" -> Str(W_completed)
    [] status = "error" -> Str(W_error)
    [] OTHER -> Str(W_in_progress)

\* JSON.stringify of one entry, FileUploader.tsx 139.
StringifyProcess(p) ==
  [isNull |-> FALSE, processingId |-> Str(p.processingId),
   collectionName |-> p.collectionName, sourceUrl |-> p.sourceUrl,
   status |-> StatusText(p.status), percentage |-> Num(p.percentage),
   stage |-> p.stage, message |-> p.message,
   notificationId |-> p.notificationId]

\* A persistence effect without the removeItem of 134-137.
PersistMutEmptyArray(procs) ==
  ArrayOf([i \in DOMAIN procs |-> StringifyProcess(procs[i])])

\* The persistence effect, FileUploader.tsx 129-140.
Persist(procs) ==
  IF Len(procs) = 0 THEN NoKey
  ELSE ArrayOf([i \in DOMAIN procs |-> StringifyProcess(procs[i])])

\* pollStatuses without the filter of 422-424.
ActiveProcessesMutAll(procs) == procs

\* processes.filter(item => item.status === "in_progress"), 422-424.
ActiveProcesses(procs) == SelectSeq(procs, LAMBDA p : p.status = "in_progress")

\* hasActiveProcesses that counts the jobs of every status.
hasActiveProcessesMutAny(procs) == Len(procs) > 0

\* hasActiveProcesses, FileUploader.tsx 407-410.
hasActiveProcesses(procs) ==
  \E i \in DOMAIN procs : procs[i].status = "in_progress"


(***************************************************************************)
(* The calls on the notification context (useNotifications, imported at    *)
(* FileUploader.tsx 13): addNotification(n) and updateNotification(id, n). *)
(***************************************************************************)
AddCall(type, autoClose, id) ==
  [op |-> "add", nid |-> NoNotification, type |-> type,
   autoClose |-> autoClose, processingId |-> id]

UpdateCall(nid, type, autoClose) ==
  [op |-> "update", nid |-> nid, type |-> type, autoClose |-> autoClose,
   processingId |-> << >>]

\* handleStatusTransition without the error branch of 348-358.
handleStatusTransitionMutSuccess(process, nextStatus) ==
  IF process.notificationId = NoNotification THEN << >>
  ELSE << UpdateCall(process.notificationId, "success", TRUE) >>

\* handleStatusTransition, FileUploader.tsx 324-359: the calls it makes.
handleStatusTransition(process, nextStatus) ==
  IF process.notificationId = NoNotification THEN << >>
  ELSE IF nextStatus = "completed"
    THEN << UpdateCall(process.notificationId, "success", TRUE) >>
  ELSE IF nextStatus = "error"
    THEN << UpdateCall(process.notificationId, "error", FALSE) >>
  ELSE << >>

\* The notification context, of which the component sees addNotification
\* return an id and updateNotification take one: a notification per id
\* with the type and autoClose last given to it ("none" before it is
\* added), and the number of warnings added.
NoNotif == [type |-> "none", autoClose |-> FALSE]

RECURSIVE NotifAfter(_, _)
NotifAfter(nf, cs) ==
  IF cs = << >> THEN nf
  ELSE NotifAfter(
         IF Head(cs).nid \in DOMAIN nf /\ nf[Head(cs).nid].type # "none"
           THEN [nf EXCEPT ![Head(cs).nid] =
                   [type |-> Head(cs).type, autoClose |-> Head(cs).autoClose]]
           ELSE nf,
         Tail(cs))

WarningsAfter(w, cs) ==
  w + Len(SelectSeq(cs, LAMBDA c : c.op = "add" /\ c.type = "warning"))

\* A call is a bridge transition when it turns a notification into the
\* success or the error notification.
IsBridge(c) == c.op = "update" /\ c.type \in {"success", "error"}

\* The history of bridge transitions after the calls cs.
RECURSIVE Fired(_, _)
Fired(f, cs) ==
  IF cs = << >> THEN f
  ELSE Fired(IF IsBridge(Head(cs)) /\ Head(cs).nid \in DOMAIN f
               THEN [f EXCEPT ![Head(cs).nid] = IF @ < FiredCap THEN @ + 1 ELSE @]
               ELSE f,
             Tail(cs))

(***************************************************************************)
(* One status request of a tick: the response and what the code makes of   *)
(* it, FileUploader.tsx 433-496.                                           *)
(***************************************************************************)
\* A response: the transport fails (fetch rejects or the body is no JSON),
\* or it carries success, status, data.progress.percentage,
\* data.progress.stage, message and error.
Response(transport, success, status, percentage, stage, message, error) ==
  [transport |-> transport, success |-> success, status |-> status,
   percentage |-> percentage, stage |-> stage, message |-> message,
   error |-> error]

R_fail == Response("fail", Undefined, Undefined, Undefined, Absent, Absent, Absent)
R_progress ==
  Response("ok", True, Str(W_document_processing), Num(42), Absent, Absent, Absent)
R_completed ==
  Response("ok", True, Str(<< "C" >> \o Tail(W_completed)), Num(42), Absent, Absent, Absent)
R_full == Response("ok", True, Str(W_queued), Num(137), Absent, Absent, Absent)
R_failed ==
  Response("ok", True, Str([i \in DOMAIN W_failed |-> UpperChar(W_failed[i])]),
           Num(137), Absent, Absent, Absent)
R_refused == Response("ok", False, Str(W_done), Num(137), Absent, Absent, Absent)

Responses == {R_fail, R_progress, R_completed, R_full, R_failed, R_refused}

\* A response that reports a percentage below 0.
R_negative ==
  Response("ok", True, Str(W_document_processing), Num(-5), Absent, Absent, Absent)

ReportedResponses == Responses \cup {R_negative}

\* An entry of updates: status "none" when the key is not set.
Update(status, percentage, stage, message) ==
  [status |-> status, percentage |-> percentage, stage |-> stage,
   message |-> message]

\* The catch branch is taken when the transport fails and when
\* normalizeApiStatus throws inside the try block.
Caught(resp) == resp.transport = "fail" \/ normalizeApiStatus(resp.status) = Threw

\* A classification that looks for the completion first.
ClassifyMutCompletedFirst(resp) ==
  LET percentage == NumberOrZero(resp.percentage)
      statusFromApi == normalizeApiStatus(resp.status)
  IN IF statusFromApi = "completed" \/ (resp.success = True /\ percentage >= 100)
       THEN "completed"
     ELSE IF resp.success = False \/ statusFromApi = "error" THEN "error"
     ELSE "in_progress"

\* "error", "completed" or "in_progress": the branch of 445-478 taken.
Classify(resp) ==
  LET percentage == NumberOrZero(resp.percentage)
      statusFromApi == normalizeApiStatus(resp.status)
  IN IF resp.success = False \/ statusFromApi = "error" THEN "error"
     ELSE IF statusFromApi = "completed" \/ (resp.success = True /\ percentage >= 100)
       THEN "completed"
     ELSE "in_progress"

\* Caught and Classify of each response of Responses, computed once.
CaughtOf == [resp \in ReportedResponses |-> Caught(resp)]

ClassOf == [resp \in ReportedResponses |-> Classify(resp)]

\* The entry written to updates with the reported percentage kept in the
\* completed branch (462).
UpdateOfMutRaw(process, resp) ==
  IF CaughtOf[resp]
    THEN Update("none", process.percentage, process.stage, "warning")
  ELSE LET percentage == NumberOrZero(resp.percentage)
           stage == Coalesce(resp.stage, Coalesce(process.stage, "null"))
           message == Coalesce(resp.message, Coalesce(process.message, "null"))
           class == ClassOf[resp]
       IN CASE class = "error" ->
                 Update("error", percentage, stage,
                        IF resp.error # Absent THEN resp.error ELSE message)
            [] class = "completed" -> Update("completed", percentage, stage, message)
            [] OTHER -> Update("none", percentage, stage, message)

\* The entry written to updates[process.processingId].
UpdateOf(process, resp) ==
  IF CaughtOf[resp]
    THEN Update("none", process.percentage, process.stage, "warning")
  ELSE LET percentage == NumberOrZero(resp.percentage)
           stage == Coalesce(resp.stage, Coalesce(process.stage, "null"))
           message == Coalesce(resp.message, Coalesce(process.message, "null"))
           class == ClassOf[resp]
       IN CASE class = "error" ->
                 Update("error", percentage, stage,
                        IF resp.error # Absent THEN resp.error ELSE message)
            [] class = "completed" -> Update("completed", 100, stage, message)
            [] OTHER -> Update("none", percentage, stage, message)

\* The calls on the notification context made while the response is
\* handled: the warning of the catch branch 481-487, or the transition of
\* 453 and 467.
CallsOf(process, resp) ==
  IF CaughtOf[resp]
    THEN << AddCall("warning", FALSE, process.processingId) >>
  ELSE LET class == ClassOf[resp]
       IN IF class = "in_progress" THEN << >>
          ELSE handleStatusTransition(process, class)

\* A merge that writes the percentage, stage and message of an update but
\* not its status.
MergeItemMutNoStatus(item, u) ==
  [item EXCEPT !.percentage = u.percentage,
               !.stage = u.stage,
               !.message = u.message]

\* A merge that puts the update in the place of the entry and so loses the
\* notification of the job.
MergeItemMutReplace(item, u) ==
  [item EXCEPT !.status = IF u.status = "none" THEN @ ELSE u.status,
               !.percentage = u.percentage,
               !.stage = u.stage,
               !.message = u.message,
               !.notificationId = NoNotification]

\* The merge of a tick's updates, FileUploader.tsx 500-511: { ...item,
\* ...updates[item.processingId] }.
MergeItem(item, u) ==
  [item EXCEPT !.status = IF u.status = "none" THEN @ ELSE u.status,
               !.percentage = u.percentage,
               !.stage = u.stage,
               !.message = u.message]

\* A merge that inserts the update of an id the store does not hold.
MergeMutUpsert(prev, updates) ==
  LET absent == {id \in DOMAIN updates :
                   \A i \in DOMAIN prev : prev[i].processingId # id}
      entry(id) ==
        MergeItem([processingId |-> id, collectionName |-> "docs",
                   sourceUrl |-> "https://ex.com/doc.pdf",
                   status |-> "in_progress", percentage |-> 0,
                   stage |-> "document_download", message |-> "started",
                   notificationId |-> NoNotification],
                  updates[id])
      merged == [i \in DOMAIN prev |->
                   IF prev[i].processingId \in DOMAIN updates
                     THEN MergeItem(prev[i], updates[prev[i].processingId])
                     ELSE prev[i]]
  IN IF absent = {} THEN merged
     ELSE merged \o << entry(CHOOSE id \in absent : TRUE) >>

\* A merge that gives up when a request of the tick failed or reported an
\* error.
MergeMutAllOrNothing(prev, updates) ==
  IF \E id \in DOMAIN updates :
       updates[id].status = "error" \/ updates[id].message = "warning"
    THEN prev
    ELSE [i \in DOMAIN prev |->
            IF prev[i].processingId \in DOMAIN updates
              THEN MergeItem(prev[i], updates[prev[i].processingId])
              ELSE prev[i]]

\* The merge of a tick's updates, FileUploader.tsx 499-512.
Merge(prev, updates) ==
  [i \in DOMAIN prev |->
     IF prev[i].processingId \in DOMAIN updates
       THEN MergeItem(prev[i], updates[prev[i].processingId])
       ELSE prev[i]]


(***************************************************************************)
(* The poller: pollStatuses and the polling effect, FileUploader.tsx       *)
(* 412-524.                                                                *)
(***************************************************************************)
NoUpdates == [id \in {} |-> Update("none", 0, "null", "null")]

\* An invocation of pollStatuses that awaits its requests: the entries it
\* read from processesRef.current, the requests not yet settled, and
\* updates.
Tick(procs) == [procs |-> procs, pending |-> DOMAIN procs, updates |-> NoUpdates]

\* A pollStatuses that requests the first job in progress only.
pollStatusesMutFirst(procs, tks) ==
  IF Len(ActiveProcesses(procs)) = 0 THEN tks
  ELSE tks (+) SetToBag({Tick(<< Head(ActiveProcesses(procs)) >>)})

\* pollStatuses up to its await, 421-432: nothing is requested when no
\* entry is in progress.
pollStatuses(procs, tks) ==
  IF Len(ActiveProcesses(procs)) = 0 THEN tks
  ELSE tks (+) SetToBag({Tick(ActiveProcesses(procs))})

\* The timer of the effect: ref is pollingIntervalRef.current # null, live
\* the number of intervals that were set and not cleared.
ClearTimer(ts) ==
  IF ts.ref THEN [ref |-> FALSE, live |-> ts.live - 1] ELSE ts

\* A polling effect that returns no cleanup.
EffectCleanupMutNone(wasActive, ts) == ts

\* The cleanup returned at 518-523 (the idle branch returns none).
EffectCleanup(wasActive, ts) == IF wasActive THEN ClearTimer(ts) ELSE ts

\* The body of the effect without the immediate pollStatuses(): 413-419 and
\* 516.
EffectTimer(active, ts) ==
  IF ~active THEN ClearTimer(ts)
  ELSE [ref |-> TRUE, live |-> ts.live + 1]

\* The effect runs again when one of its dependencies [baseUrl,
\* hasActiveProcesses] changed.
Rerun(procs2, urlChanged) ==
  hasActiveProcesses(procs2) # hasActiveProcesses(processes) \/ urlChanged

TimerAfter(procs2, urlChanged) ==
  LET ts == [ref |-> intervalRef, live |-> liveTimers]
  IN IF Rerun(procs2, urlChanged)
       THEN EffectTimer(hasActiveProcesses(procs2),
                        EffectCleanup(hasActiveProcesses(processes), ts))
       ELSE ts

\* The render that follows setProcesses or a change of baseUrl, with its
\* effects: processesRef.current (125-127), the persistence (129-140) when
\* processes changed, and the polling effect, which calls pollStatuses()
\* at once (515). tks are the invocations in flight.
Render(procs2, urlChanged, persist, tks) ==
  /\ Rerun(procs2, urlChanged) /\ hasActiveProcesses(procs2)
       => BagCardinality(tks) < MaxTicks
  /\ processes' = procs2
  /\ storage' = IF persist THEN Persist(procs2) ELSE storage
  /\ intervalRef' = TimerAfter(procs2, urlChanged).ref
  /\ liveTimers' = TimerAfter(procs2, urlChanged).live
  /\ ticks' = IF Rerun(procs2, urlChanged) /\ hasActiveProcesses(procs2)
                THEN pollStatuses(procs2, tks)
                ELSE tks

(***************************************************************************)
(* The state machine of the component.                                     *)
(***************************************************************************)
\* handleSubmit's new entry, FileUploader.tsx 269-279, for the
\* processing_id id and the percentage pct of the response.
NewProcess(id, pct, nid) ==
  [processingId |-> id, collectionName |-> "docs",
   sourceUrl |-> "https://ex.com/doc.pdf", status |-> "in_progress",
   percentage |-> NumberOrZero(pct), stage |-> "document_download",
   message |-> "started", notificationId |-> nid]

\* What the component finds when it is mounted: the storage, and the
\* notification ids it handed out before. Nothing; a text that is no JSON;
\* or what an earlier mounting of the component left behind, a job in
\* progress with its notification.
InitialSessions ==
  { [storage |-> NoKey, lastId |-> 0],
    [storage |-> NotJson, lastId |-> 0],
    [storage |-> Persist(<< NewProcess(Id_a, Num(42), 1) >>), lastId |-> 1] }

NoTimer == [ref |-> FALSE, live |-> 0]

\* The first render of the component: the state initializer 81-113, then
\* the effects.
Init ==
  \E session \in InitialSessions :
    LET loaded == LoadProcesses(session.storage)
    IN /\ processes = loaded
       /\ storage = Persist(loaded)
       /\ intervalRef = EffectTimer(hasActiveProcesses(loaded), NoTimer).ref
       /\ liveTimers = EffectTimer(hasActiveProcesses(loaded), NoTimer).live
       /\ ticks = pollStatuses(loaded, EmptyBag)
       /\ lastId = session.lastId
       /\ notif = [nid \in NotificationIds |->
                     IF nid <= session.lastId
                       THEN [type |-> "processing", autoClose |-> FALSE]
                       ELSE NoNotif]
       /\ warnings = 0
       /\ fired = [nid \in NotificationIds |-> 0]
       /\ normIn = Undefined
       /\ normOut = "none"
       /\ loadIn = NoKey
       /\ loadOut = NotLoaded
       /\ AuxInit

\* An updater that puts the new entry behind the others.
AddProcessMutAppend(prev, new) ==
  SelectSeq(prev, LAMBDA item : item.processingId # new.processingId) \o << new >>

\* The updater of setProcesses in handleSubmit, 281-286.
AddProcess(prev, new) ==
  << new >> \o SelectSeq(prev, LAMBDA item : item.processingId # new.processingId)

\* handleSubmit when the POST succeeds, FileUploader.tsx 256-293: the
\* backend issued processing_id id and reported percentage pct.
Submit(id, pct) ==
  /\ lastId < MaxSubmits
  /\ lastId' = lastId + 1
  /\ notif' = [notif EXCEPT ![lastId + 1] =
                  [type |-> "processing", autoClose |-> FALSE]]
  /\ Render(AddProcess(processes, NewProcess(id, pct, lastId + 1)),
            FALSE, TRUE, ticks)
  /\ UNCHANGED << warnings, fired, normVars, loadVars, auxVars >>

\* An interval of the event loop fires: pollStatuses, 421-432.
TimerFire ==
  /\ liveTimers > 0
  /\ BagCardinality(ticks) < MaxTicks
  /\ ticks' = pollStatuses(processes, ticks)
  /\ UNCHANGED << processes, storage, intervalRef, liveTimers, lastId, notif,
                  warnings, fired, normVars, loadVars, auxVars >>

\* The request of tick t for its i-th entry settles with resp: 433-496.
\* When it is the last one, Promise.all resolves and the updates are merged
\* (499-512) before anything else runs.
Settled(t, i, resp) ==
  [t EXCEPT !.pending = @ \ {i},
            !.updates = (t.procs[i].processingId :> UpdateOf(t.procs[i], resp)) @@ @]

\* A pollStatuses that writes each update to the store as soon as its
\* request settles.
FetchSettleMutEager(t, i, resp) ==
  LET cs == CallsOf(t.procs[i], resp)
      t2 == Settled(t, i, resp)
      u == t.procs[i].processingId :> UpdateOf(t.procs[i], resp)
  IN /\ CaughtOf[resp] => warnings < MaxWarnings
     /\ notif' = NotifAfter(notif, cs)
     /\ warnings' = WarningsAfter(warnings, cs)
     /\ fired' = Fired(fired, cs)
     /\ Render(Merge(processes, u), FALSE, TRUE,
               IF t2.pending # {}
                 THEN (ticks (-) SetToBag({t})) (+) SetToBag({t2})
                 ELSE ticks (-) SetToBag({t}))
     /\ UNCHANGED << lastId, normVars, loadVars, auxVars >>

FetchSettle(t, i, resp) ==
  LET cs == CallsOf(t.procs[i], resp)
      t2 == Settled(t, i, resp)
  IN /\ CaughtOf[resp] => warnings < MaxWarnings
     /\ notif' = NotifAfter(notif, cs)
     /\ warnings' = WarningsAfter(warnings, cs)
     /\ fired' = Fired(fired, cs)
     /\ IF t2.pending # {}
          THEN /\ ticks' = (ticks (-) SetToBag({t})) (+) SetToBag({t2})
               /\ UNCHANGED << processes, storage, intervalRef, liveTimers >>
          ELSE Render(Merge(processes, t2.updates), FALSE, TRUE,
                      ticks (-) SetToBag({t}))
     /\ UNCHANGED << lastId, normVars, loadVars, auxVars >>

\* Handlers that leave the notifications of the deleted entries alone.
DismissalsMutNone(procs) == << >>

\* The "tracking stopped" update of 364-372 and 389-397 for the entries
\* procs, in their order.
RECURSIVE Dismissals(_)
Dismissals(procs) ==
  IF procs = << >> THEN << >>
  ELSE (IF Head(procs).notificationId # NoNotification
          THEN << UpdateCall(Head(procs).notificationId, "info", TRUE) >>
          ELSE << >>) \o Dismissals(Tail(procs))

\* processesRef.current.find(item => item.processingId === processId), 362:
\* the first entry with that id, as a list of at most one entry.
Find(procs, id) ==
  LET found == SelectSeq(procs, LAMBDA item : item.processingId = id)
  IN IF found = << >> THEN << >> ELSE << Head(found) >>

\* handleRemoveProcess, FileUploader.tsx 361-381.
RemoveProcess(id) ==
  /\ notif' = NotifAfter(notif, Dismissals(Find(processes, id)))
  /\ Render(SelectSeq(processes, LAMBDA item : item.processingId # id),
            FALSE, TRUE, ticks)
  /\ UNCHANGED << lastId, warnings, fired, normVars, loadVars, auxVars >>

\* handleClearProcesses, FileUploader.tsx 383-405.
ClearProcesses ==
  /\ Len(processes) # 0
  /\ notif' = NotifAfter(notif, Dismissals(processes))
  /\ Render(<< >>, FALSE, TRUE, ticks)
  /\ UNCHANGED << lastId, warnings, fired, normVars, loadVars, auxVars >>

\* The parent renders the component with another baseUrl. The value of the
\* prop only names the host of the requests; what the state machine sees
\* of it is that the dependency of the polling effect changed.
ChangeBaseUrl ==
  /\ Render(processes, TRUE, FALSE, ticks)
  /\ UNCHANGED << lastId, notif, warnings, fired, normVars, loadVars, auxVars >>

\* The ids a removal is asked for: those of the entries shown, and ids that
\* are not in the store.
RemovableIds == Ids \cup {processes[i].processingId : i \in DOMAIN processes}

\* The percentages a submission response reports.
SubmitPercentages == {Num(0)}

Next ==
  \/ \E id \in Ids, pct \in SubmitPercentages : Submit(id, pct)
  \/ TimerFire
  \/ \E t \in BagToSet(ticks) : \E i \in t.pending, resp \in Responses :
       FetchSettle(t, i, resp)
  \/ \E id \in RemovableIds : RemoveProcess(id)
  \/ ClearProcesses
  \/ ChangeBaseUrl

Spec == Init /\ [][Next]_vars

(***************************************************************************)
(* The component mounted on a storage that an earlier session, another     *)
(* version of the page or the user left in any condition; no job is        *)
(* submitted.                                                              *)
(***************************************************************************)
LoadStorages ==
  { NoKey,
    NotJson,
    NotArray,
    ArrayOf(<< Item(Str(Id_a), Str(W_in_progress), Num(42), NoNotification) >>),
    ArrayOf(<< Item(Str(Id_a), Str(W_completed), Num(100), NoNotification),
               Item(Str(Id_b), Undefined, Str(W_abc), 1) >>),
    ArrayOf(<< NullItem,
               Item(Str(Id_a), Str(W_in_progress), Num(42), NoNotification) >>),
    ArrayOf(<< Item(Str(Id_a), Num(7), Num(42), NoNotification),
               Item(Str(Id_b), Str(W_in_progress), Num(42), NoNotification) >>),
    ArrayOf(<< Item(Str(Id_a), Str(W_in_progress), Num(42), NoNotification),
               Item(Str(Id_a), Str(W_done), Num(100), NoNotification) >>),
    ArrayOf(<< Item(Undefined, Str(W_error), Num(42), NoNotification),
               Item(Undefined, Str(W_in_progress), Str(W_42), NoNotification) >>) }

InitLoad ==
  \E st \in LoadStorages :
    LET loaded == LoadProcesses(st)
    IN /\ processes = loaded
       /\ storage = Persist(loaded)
       /\ intervalRef = EffectTimer(hasActiveProcesses(loaded), NoTimer).ref
       /\ liveTimers = EffectTimer(hasActiveProcesses(loaded), NoTimer).live
       /\ ticks = pollStatuses(loaded, EmptyBag)
       /\ lastId = 0
       /\ notif = [nid \in NotificationIds |-> NoNotif]
       /\ warnings = 0
       /\ fired = [nid \in NotificationIds |-> 0]
       /\ normIn = Undefined
       /\ normOut = "none"
       /\ loadIn = NoKey
       /\ loadOut = NotLoaded
       /\ AuxInit

NextLoad ==
  \/ TimerFire
  \/ \E t \in BagToSet(ticks) : \E i \in t.pending, resp \in Responses :
       FetchSettle(t, i, resp)
  \/ \E id \in RemovableIds : RemoveProcess(id)
  \/ ClearProcesses
  \/ ChangeBaseUrl

SpecLoad == InitLoad /\ [][NextLoad]_vars


(***************************************************************************)
(* The status normalizer alone: one call of normalizeApiStatus on an input *)
(* of StatusInputs.                                                        *)
(***************************************************************************)
\* All the spellings of the word w in upper and lower case letters.
RECURSIVE Spellings(_)
Spellings(w) ==
  IF w = << >> THEN {<< >>}
  ELSE {<< c >> \o rest : c \in {Head(w), UpperChar(Head(w))},
                          rest \in Spellings(Tail(w))}

Capitalized(w) == << UpperChar(Head(w)) >> \o Tail(w)
AllCaps(w) == [i \in DOMAIN w |-> UpperChar(w[i])]

CompletedWords == {W_completed, W_finished, W_done}
ErrorWords == {W_error, W_failed, W_failed_with_errors, W_cancelled}
OtherWords ==
  {W_queued, W_canceled, W_complete, W_errors, W_in_progress,
   W_document_processing, W_empty}

StatusInputs ==
  {Undefined, Null}
    \cup {Str(s) : s \in UNION {Spellings(w) : w \in {W_done, W_error, W_failed, W_finished}}}
    \cup {Str(s) : s \in UNION {{w, Capitalized(w), AllCaps(w)} :
                                  w \in {W_completed, W_cancelled, W_failed_with_errors}}}
    \cup {Str(s) : s \in UNION {{w, AllCaps(w)} : w \in OtherWords}}

InitNorm ==
  /\ processes = << >>
  /\ storage = NoKey
  /\ intervalRef = FALSE
  /\ liveTimers = 0
  /\ ticks = EmptyBag
  /\ lastId = 0
  /\ notif = [nid \in NotificationIds |-> NoNotif]
  /\ warnings = 0
  /\ fired = [nid \in NotificationIds |-> 0]
  /\ normIn \in StatusInputs
  /\ normOut = "none"
  /\ loadIn = NoKey
  /\ loadOut = NotLoaded
  /\ AuxInit

Normalize ==
  /\ normOut = "none"
  /\ normOut' = normalizeApiStatus(normIn)
  /\ UNCHANGED << processes, storage, intervalRef, liveTimers, ticks, lastId,
                  notif, warnings, fired, normIn, loadVars, auxVars >>

NextNorm == Normalize

SpecNorm == InitNorm /\ [][NextNorm]_vars

\* s is the word w written in any letter case.
SameWord(s, w) ==
  /\ Len(s) = Len(w)
  /\ \A i \in DOMAIN w : s[i] = w[i] \/ s[i] = UpperChar(w[i])

IsWordOf(v, words) == v.k = "string" /\ \E w \in words : SameWord(v.s, w)

\* C1: normalizeApiStatus returns one of in_progress, completed, error for
\* every string, null and undefined; completed exactly for completed,
\* finished and done, error exactly for error, failed, failed_with_errors
\* and cancelled, in any letter case; in_progress for everything else.
C1_NormalizerTotal ==
  normOut # "none" =>
    /\ normOut \in {"in_progress", "completed", "error"}
    /\ normOut = "completed" <=> IsWordOf(normIn, CompletedWords)
    /\ normOut = "error" <=> IsWordOf(normIn, ErrorWords)

\* C1 witness: a word in mixed case was normalized to error.
C1_Witness ==
  /\ normOut = "error"
  /\ normIn.k = "string"
  /\ normIn.s \notin ErrorWords

(***************************************************************************)
(* Properties of the poller and the store.                                 *)
(***************************************************************************)
Terminal == {"completed", "error"}

\* The entries j of the store and k of the store after the step are the
\* same job: the id the backend issued and the notification of the
\* submission.
SameJob(j, k) ==
  /\ processes'[k].processingId = processes[j].processingId
  /\ processes'[k].notificationId = processes[j].notificationId

\* The invocations of pollStatuses that the step started.
StartedTicks ==
  {t \in BagToSet(ticks') :
     /\ t.pending = DOMAIN t.procs
     /\ DOMAIN t.updates = {}
     /\ CopiesIn(t, ticks') > CopiesIn(t, ticks)}

\* C2: once an entry of the store is completed or error, no step that keeps
\* the job changes its status: it neither returns to in_progress nor
\* switches between completed and error, whichever tick the result comes
\* from.
C2_StatusMonotonic ==
  [][\A j \in DOMAIN processes : \A k \in DOMAIN processes' :
       (SameJob(j, k) /\ processes[j].status \in Terminal)
         => processes'[k].status = processes[j].status]_vars

\* C3: every tick requests only jobs that the store holds in_progress when
\* the tick starts, so that no tick started while a job is completed or
\* error requests its id; the entries a tick in flight holds were
\* in_progress when it read them.
C3_TerminalNeverPolled ==
  /\ [](\A t \in BagToSet(ticks) : \A i \in DOMAIN t.procs :
          t.procs[i].status = "in_progress")
  /\ [][\A t \in StartedTicks : \A i \in DOMAIN t.procs :
          /\ \E k \in DOMAIN processes' : processes'[k] = t.procs[i]
          /\ \A k \in DOMAIN processes' :
               processes'[k].processingId = t.procs[i].processingId
                 => processes'[k].status = "in_progress"]_vars

\* C3 witness: a tick is in flight for one job while the store holds
\* another job that is terminal and that the tick does not request.
C3_Witness ==
  \E t \in BagToSet(ticks) : \E k \in DOMAIN processes :
    /\ t.pending = DOMAIN t.procs
    /\ processes[k].status \in Terminal
    /\ \A i \in DOMAIN t.procs :
         t.procs[i].processingId # processes[k].processingId

\* C4: the store holds at most one entry per processingId.
C4_UniqueIds ==
  \A j, k \in DOMAIN processes :
    processes[j].processingId = processes[k].processingId => j = k

\* C5: the interval of the poller is set exactly when the store holds a job
\* in_progress, and then it is the only interval alive.
C5_PollingIffActive ==
  /\ intervalRef <=> \E i \in DOMAIN processes : processes[i].status = "in_progress"
  /\ liveTimers = IF intervalRef THEN 1 ELSE 0

\* C5 witness: the poller went back to idle with jobs in the store, all of
\* them terminal.
C5_Witness ==
  /\ ~intervalRef
  /\ Len(processes) > 0
  /\ \E i \in DOMAIN processes : processes[i].notificationId # NoNotification

\* The entries of the store with the processingId id.
EntriesOf(id) == {j \in DOMAIN processes : processes[j].processingId = id}

\* The tick t is in ticks after the step with its i-th request settled and
\* the update u recorded for it.
Recorded(t, i, u) ==
  \E t2 \in BagToSet(ticks') :
    /\ t2.procs = t.procs
    /\ t2.pending = t.pending \ {i}
    /\ t.procs[i].processingId \in DOMAIN t2.updates
    /\ u = t2.updates[t.procs[i].processingId]

\* The count of bridge transitions of the notification nid went up by one.
FiredOnceMore(nid) ==
  fired'[nid] = IF fired[nid] < FiredCap THEN fired[nid] + 1 ELSE fired[nid]

\* The step settles a request of the tick t: only that takes the tick, as
\* it was, out of the invocations in flight.
Leaves(t) == CopiesIn(t, ticks') < CopiesIn(t, ticks)

\* The step settles the last request of the tick t and merges its updates.
Completes(t) == Cardinality(t.pending) = 1 /\ Leaves(t)

\* The step does not change status, percentage and stage of the entry j.
Kept(j) ==
  /\ j \in DOMAIN processes'
  /\ processes'[j].status = processes[j].status
  /\ processes'[j].percentage = processes[j].percentage
  /\ processes'[j].stage = processes[j].stage

TransportFailures == {resp \in Responses : resp.transport = "fail"}

\* C6: when the request of a job fails in transport, a warning is added and
\* the merge of the tick leaves the status of the job in_progress and its
\* stored percentage and stage as they were.
C6_TransportFailureKeeps ==
  [][\A t \in BagToSet(ticks) :
       /\ Leaves(t) =>
            \A i \in t.pending : \A resp \in TransportFailures :
              FetchSettle(t, i, resp) =>
                /\ warnings' = warnings + 1
                /\ t.pending = {i} =>
                     \A j \in EntriesOf(t.procs[i].processingId) :
                       Kept(j) /\ processes'[j].status = "in_progress"
       /\ Completes(t) =>
            \A id \in DOMAIN t.updates :
              t.updates[id].message = "warning" =>
                \A j \in EntriesOf(id) :
                  Kept(j) /\ processes'[j].status = "in_progress"]_vars

\* A response that signals the failure of the job: its status normalizes
\* to error, or it carries success = false.
ErrorResponse(resp) ==
  /\ resp.transport = "ok"
  /\ resp.status.k \in {"string", "undefined", "null"}
  /\ resp.success = False \/ IsWordOf(resp.status, ErrorWords)

\* A response that signals the completion of the job.
CompletedResponse(resp) ==
  /\ resp.transport = "ok"
  /\ resp.status.k \in {"string", "undefined", "null"}
  /\ ~ErrorResponse(resp)
  /\ \/ IsWordOf(resp.status, CompletedWords)
     \/ resp.success = True /\ resp.percentage.k = "number" /\ resp.percentage.n >= 100

ErrorResponses == {resp \in Responses : ErrorResponse(resp)}

CompletedResponses == {resp \in Responses : CompletedResponse(resp)}

\* C7: a response that normalizes to error or carries success = false
\* records status error for the job, which the merge of the tick writes to
\* the store; the notification of the job becomes an error notification
\* with autoClose false; no tick that starts later requests the job, and
\* the job does not return to in_progress.
C7_ErrorOutcome ==
  [][/\ \A t \in BagToSet(ticks) :
          /\ Leaves(t) =>
               \A i \in t.pending : \A resp \in ErrorResponses :
                 FetchSettle(t, i, resp) =>
                   /\ t.procs[i].notificationId # NoNotification =>
                        /\ notif'[t.procs[i].notificationId] =
                             [type |-> "error", autoClose |-> FALSE]
                        /\ FiredOnceMore(t.procs[i].notificationId)
                   /\ t.pending # {i} =>
                        \E u \in {UpdateOf(t.procs[i], resp)} :
                          u.status = "error" /\ Recorded(t, i, u)
                   /\ t.pending = {i} =>
                        \A j \in EntriesOf(t.procs[i].processingId) :
                          j \in DOMAIN processes' /\ processes'[j].status = "error"
          /\ Completes(t) =>
               \A id \in DOMAIN t.updates :
                 t.updates[id].status = "error" =>
                   \A j \in EntriesOf(id) :
                     j \in DOMAIN processes' /\ processes'[j].status = "error"
     /\ \A t \in StartedTicks : \A i \in DOMAIN t.procs :
          \A k \in DOMAIN processes' :
            processes'[k].status = "error" =>
              t.procs[i].processingId # processes'[k].processingId
     /\ \A j \in DOMAIN processes : \A k \in DOMAIN processes' :
          (SameJob(j, k) /\ processes[j].status = "error")
            => processes'[k].status # "in_progress"]_vars

\* C7 witness: a job of the store is in error and its notification is the
\* error notification that stays open.
C7_Witness ==
  \E j \in DOMAIN processes :
    /\ processes[j].status = "error"
    /\ processes[j].notificationId # NoNotification
    /\ notif[processes[j].notificationId] = [type |-> "error", autoClose |-> FALSE]
    /\ fired[processes[j].notificationId] = 1

\* C8: a response that normalizes to completed, or carries success = true
\* with a percentage of 100 or more, and signals no failure, records status
\* completed and percentage 100 for the job, whatever percentage was
\* reported, which the merge of the tick writes to the store; the
\* notification of the job becomes a success notification that closes by
\* itself; no tick that starts later requests the job, and the job does
\* not return to in_progress.
C8_CompletedOutcome ==
  [][/\ \A t \in BagToSet(ticks) :
          /\ Leaves(t) =>
               \A i \in t.pending : \A resp \in CompletedResponses :
                 FetchSettle(t, i, resp) =>
                   /\ t.procs[i].notificationId # NoNotification =>
                        /\ notif'[t.procs[i].notificationId] =
                             [type |-> "success", autoClose |-> TRUE]
                        /\ FiredOnceMore(t.procs[i].notificationId)
                   /\ t.pending # {i} =>
                        \E u \in {UpdateOf(t.procs[i], resp)} :
                          /\ u.status = "completed"
                          /\ u.percentage = 100
                          /\ Recorded(t, i, u)
                   /\ t.pending = {i} =>
                        \A j \in EntriesOf(t.procs[i].processingId) :
                          /\ j \in DOMAIN processes'
                          /\ processes'[j].status = "completed"
                          /\ processes'[j].percentage = 100
          /\ Completes(t) =>
               \A id \in DOMAIN t.updates :
                 t.updates[id].status = "completed" =>
                   \A j \in EntriesOf(id) :
                     /\ j \in DOMAIN processes'
                     /\ processes'[j].status = "completed"
                     /\ processes'[j].percentage = 100
     /\ \A t \in StartedTicks : \A i \in DOMAIN t.procs :
          \A k \in DOMAIN processes' :
            processes'[k].status = "completed" =>
              t.procs[i].processingId # processes'[k].processingId
     /\ \A j \in DOMAIN processes : \A k \in DOMAIN processes' :
          (SameJob(j, k) /\ processes[j].status = "completed")
            => processes'[k].status # "in_progress"]_vars

\* C8 witness: a job of the store is completed at percentage 100 (the
\* responses report 42 and 137) and its notification is the success
\* notification.
C8_Witness ==
  \E j \in DOMAIN processes :
    /\ processes[j].status = "completed"
    /\ processes[j].percentage = 100
    /\ processes[j].notificationId # NoNotification
    /\ notif[processes[j].notificationId] = [type |-> "success", autoClose |-> TRUE]
    /\ fired[processes[j].notificationId] = 1

\* The entry new is the entry old with the update u of its own request
\* merged, and nothing else changed.
Applied(old, new, u) ==
  /\ new.status = IF u.status = "none" THEN old.status ELSE u.status
  /\ new.percentage = u.percentage
  /\ new.stage = u.stage
  /\ new.message = u.message
  /\ new.processingId = old.processingId
  /\ new.notificationId = old.notificationId

\* C9: within a tick the outcome of each job is that of its own request:
\* whatever the requests of the other jobs of the tick came to, a transport
\* failure or an error included, the update recorded for a job is the one
\* its own response classifies to, the updates recorded before are kept,
\* and the merge writes to each job its own update and leaves the jobs the
\* tick did not request as they were.
C9_FetchIndependence ==
  [][\A t \in BagToSet(ticks) :
       /\ Leaves(t) =>
            \A i \in t.pending : \A resp \in Responses :
              FetchSettle(t, i, resp) =>
                IF t.pending = {i}
                  THEN \A j \in EntriesOf(t.procs[i].processingId) :
                         /\ j \in DOMAIN processes'
                         /\ Applied(processes[j], processes'[j],
                                    UpdateOf(t.procs[i], resp))
                  ELSE /\ processes' = processes
                       /\ Recorded(t, i, UpdateOf(t.procs[i], resp))
                       /\ \E t2 \in BagToSet(ticks') :
                            /\ t2.procs = t.procs
                            /\ t2.pending = t.pending \ {i}
                            /\ \A id \in DOMAIN t.updates :
                                 /\ id \in DOMAIN t2.updates
                                 /\ t2.updates[id] = t.updates[id]
       /\ Completes(t) =>
            /\ Len(processes') = Len(processes)
            /\ \A j \in DOMAIN processes :
                 LET id == processes[j].processingId
                 IN IF id \in DOMAIN t.updates
                      THEN Applied(processes[j], processes'[j], t.updates[id])
                    ELSE IF \E i \in t.pending : t.procs[i].processingId = id
                      THEN TRUE
                    ELSE processes'[j] = processes[j]]_vars

\* C9 witness: no tick is in flight, the request of one job failed in
\* transport and left it in_progress, and another job was completed.
C9_Witness ==
  /\ ticks = EmptyBag
  /\ warnings = 1
  /\ \E j, k \in DOMAIN processes :
       /\ processes[j].message = "warning"
       /\ processes[j].status = "in_progress"
       /\ processes[k].status = "completed"
       /\ processes[k].percentage = 100

\* C10: the notification of a job is turned into the success or the error
\* notification at most once.
C10_BridgeOnce == \A nid \in NotificationIds : fired[nid] <= 1

\* The processingIds a tick requested.
IdsOf(t) == {t.procs[i].processingId : i \in DOMAIN t.procs}

\* C11: removing a processingId that the store does not hold leaves the
\* store and the notifications as they were; the merge of a tick leaves
\* every entry whose id the tick did not request as it was and adds no
\* entry, so that the store is unchanged when none of the requested ids is
\* in it: a response that arrives after its job was removed does not bring
\* the job back.
C11_AbsentIdNoOp ==
  [][/\ \A id \in RemovableIds :
          (EntriesOf(id) = {} /\ RemoveProcess(id)) =>
            processes' = processes /\ storage' = storage /\ notif' = notif
     /\ \A t \in BagToSet(ticks) :
          Completes(t) =>
            /\ Len(processes') = Len(processes)
            /\ \A j \in DOMAIN processes :
                 /\ processes'[j].processingId = processes[j].processingId
                 /\ processes[j].processingId \notin IdsOf(t)
                      => processes'[j] = processes[j]
            /\ (\A id \in IdsOf(t) : EntriesOf(id) = {})
                 => processes' = processes /\ storage' = storage]_vars

\* C11 witness: the only job ever tracked was removed while its request
\* was pending; the response came afterwards and turned its notification,
\* and the store is still empty.
C11_Witness ==
  /\ lastId = 1
  /\ Len(processes) = 0
  /\ ticks = EmptyBag
  /\ notif[1].type \in {"success", "error"}

\* C12: the updates of a tick reach the store in one step, when its last
\* request settles: a step that settles an earlier request leaves store and
\* storage as they were, and the step that settles the last one writes the
\* update of every request of the tick, those recorded before and that of
\* the last request.
C12_TickAtomic ==
  [][\A t \in BagToSet(ticks) :
       /\ (Leaves(t) /\ Cardinality(t.pending) > 1) =>
            processes' = processes /\ storage' = storage
       /\ Completes(t) =>
            /\ \A id \in DOMAIN t.updates : \A j \in EntriesOf(id) :
                 Applied(processes[j], processes'[j], t.updates[id])
            /\ \E resp \in Responses : \A i \in t.pending :
                 \A j \in EntriesOf(t.procs[i].processingId) :
                   Applied(processes[j], processes'[j], UpdateOf(t.procs[i], resp))]_vars

\* C12 witness: a tick for two jobs has the completed result of one of
\* them recorded and awaits the other request, and the store still shows
\* the first job in_progress.
C12_Witness ==
  \E t \in BagToSet(ticks) : \E id \in DOMAIN t.updates :
    /\ Len(t.procs) = 2
    /\ t.pending # {}
    /\ t.updates[id].status = "completed"
    /\ \E j \in EntriesOf(id) : processes[j].status = "in_progress"

\* C13: the key url_uploader_processes is absent when the store is empty,
\* and holds the JSON array of all entries of the store, in their order,
\* when it is not; the empty array is never what is persisted.
C13_PersistedStore ==
  /\ Len(processes) = 0 <=> storage = NoKey
  /\ Len(processes) # 0 =>
       /\ storage.kind = "array"
       /\ Len(storage.items) = Len(processes)
       /\ \A i \in DOMAIN processes :
            storage.items[i] = StringifyProcess(processes[i])
  /\ ~(storage.kind = "array" /\ storage.items = << >>)

\* C13 witness: jobs were tracked, the store was emptied, and the key is
\* absent.
C13_Witness ==
  /\ lastId > 0
  /\ Len(processes) = 0
  /\ storage = NoKey

(***************************************************************************)
(* The state initializer of processes on its own, FileUploader.tsx 81-113: *)
(* it is given what localStorage holds and returns the initial store.      *)
(***************************************************************************)
MaxStored == 2

\* Elements a persisted array may hold: records as the component writes
\* them, records with fields missing or of another type, and null.
StoredItems ==
  { Item(Str(Id_a), Str(W_in_progress), Num(42), NoNotification),
    Item(Str(Id_b), Str(W_done), Num(100), 1),
    Item(Str(Id_b), Undefined, Str(W_abc), NoNotification),
    Item(Str(Id_a), Str(W_queued), Undefined, NoNotification),
    Item(Str(Id_a), Str(W_failed), Num(137), NoNotification),
    Item(Str(Id_b), Null, Str(W_42), NoNotification),
    Item(Str(Id_a), Num(7), Num(42), NoNotification),
    Item(Str(W_empty), Str(W_in_progress), Num(42), NoNotification),
    Item(Undefined, Str(W_in_progress), Num(42), NoNotification),
    NullItem }

StoredArrays ==
  UNION {[1 .. n -> StoredItems] : n \in 0 .. MaxStored}

StoredValues ==
  {NoKey, NotJson, NotArray} \cup {ArrayOf(items) : items \in StoredArrays}

InitLoader ==
  /\ processes = << >>
  /\ storage = NoKey
  /\ intervalRef = FALSE
  /\ liveTimers = 0
  /\ ticks = EmptyBag
  /\ lastId = 0
  /\ notif = [nid \in NotificationIds |-> NoNotif]
  /\ warnings = 0
  /\ fired = [nid \in NotificationIds |-> 0]
  /\ normIn = Undefined
  /\ normOut = "none"
  /\ loadIn \in StoredValues
  /\ loadOut = NotLoaded
  /\ AuxInit

Load ==
  /\ ~loadOut.done
  /\ loadOut' = Loaded(LoadProcesses(loadIn))
  /\ UNCHANGED << processes, storage, intervalRef, liveTimers, ticks, lastId,
                  notif, warnings, fired, normVars, loadIn, auxVars >>

NextLoader == Load

SpecLoader == InitLoader /\ [][NextLoader]_vars

\* A persisted element that cannot be a job: null, a record whose
\* processingId is missing, empty or no string, or whose status is neither
\* missing nor a string.
Malformed(item) ==
  \/ item.isNull
  \/ item.processingId.k # "string"
  \/ item.processingId.s = << >>
  \/ item.status.k \notin {"string", "undefined", "null"}

\* The elements of the persisted array that are not malformed, in order.
WellFormed(st) == SelectSeq(st.items, LAMBDA item : ~Malformed(item))

\* C14: the load of a persisted array yields one entry for each element
\* that is not malformed, in the order of the array, and none for the
\* malformed ones.
C14_LoadSkipsOnlyMalformed ==
  (loadOut.done /\ loadIn.kind = "array") =>
    /\ Len(loadOut.procs) = Len(WellFormed(loadIn))
    /\ \A i \in DOMAIN loadOut.procs :
         loadOut.procs[i].processingId = WellFormed(loadIn)[i].processingId.s

\* A persisted status that is missing or names no terminal state.
DefaultedStatus(v) ==
  \/ v.k \in {"undefined", "null"}
  \/ v.k = "string" /\ ~IsWordOf(v, CompletedWords) /\ ~IsWordOf(v, ErrorWords)

\* A persisted percentage that is missing or is a text that is no number.
DefaultedPercentage(v) ==
  \/ v.k \in {"undefined", "null"}
  \/ v.k = "string" /\ \E i \in DOMAIN v.s : v.s[i] \notin Digits

C16_RoundTrip ==
  LET reloaded == LoadProcesses(Persist(processes))
  IN /\ Len(reloaded) = Len(processes)
     /\ \A i \in DOMAIN processes :
          /\ reloaded[i].processingId = processes[i].processingId
          /\ reloaded[i].status = processes[i].status
          /\ reloaded[i].percentage = processes[i].percentage
     /\ {reloaded[i].processingId : i \in DOMAIN ActiveProcesses(reloaded)}
          = {processes[i].processingId : i \in DOMAIN ActiveProcesses(processes)}

\* C16 witness: the store holds a job completed at 100 and a job
\* in_progress at 42, and the storage holds their encoding.
C16_Witness ==
  /\ storage = Persist(processes)
  /\ \E i, j \in DOMAIN processes :
       /\ processes[i].status = "completed"
       /\ processes[i].percentage = 100
       /\ processes[j].status = "in_progress"
       /\ processes[j].percentage = 42

\* C17: a submission that succeeds puts the new job first in the store,
\* in_progress, with the notification just added; behind it come the
\* entries the store held, without those of the same processingId, in the
\* order they had.
C17_SubmitAtFront ==
  [][\A id \in Ids : \A pct \in SubmitPercentages :
       (lastId' = lastId + 1 /\ Submit(id, pct)) =>
         /\ Len(processes') > 0
         /\ processes'[1].processingId = id
         /\ processes'[1].status = "in_progress"
         /\ processes'[1].notificationId = lastId'
         /\ Tail(processes') =
              SelectSeq(processes, LAMBDA item : item.processingId # id)]_vars

\* C17 witness: the job submitted last is first in the store, in front of
\* the job submitted before it.
C17_Witness ==
  /\ lastId = 2
  /\ Len(processes) = 2
  /\ processes[1].notificationId = 2
  /\ processes[2].notificationId = 1

(***************************************************************************)
(* The list of jobs as it is rendered, FileUploader.tsx 932-951, for the   *)
(* jobs found at mount and the percentages their status responses report.  *)
(***************************************************************************)
\* Math.min(process.percentage, 100), 945 and 949: the width of the bar
\* and the number of the label.
RenderedPercentage(percentage) == IF percentage < 100 THEN percentage ELSE 100

NextReport ==
  \/ TimerFire
  \/ \E t \in BagToSet(ticks) : \E i \in t.pending, resp \in ReportedResponses :
       FetchSettle(t, i, resp)
  \/ \E id \in RemovableIds : RemoveProcess(id)
  \/ ClearProcesses
  \/ ChangeBaseUrl

SpecReport == Init /\ [][NextReport]_vars

\* C18: the percentage rendered for every job of the store is within 0 and
\* 100.
C18_RenderedInRange ==
  \A i \in DOMAIN processes :
    /\ RenderedPercentage(processes[i].percentage) >= 0
    /\ RenderedPercentage(processes[i].percentage) <= 100

\* The responses that report progress: neither failure nor completion.
ProgressResponses ==
  {resp \in Responses :
     /\ resp.transport = "ok"
     /\ resp.status.k = "string"
     /\ resp.percentage.k = "number"
     /\ ~ErrorResponse(resp)
     /\ ~CompletedResponse(resp)}

\* C19: when the tick of a job in_progress ends with a response that
\* reports progress at percentage p, the job stays in_progress with the
\* stored percentage p; when it ends with a response that reports
\* completion, the job is completed at 100; and every tick that starts
\* requests exactly the jobs that are in_progress, so the completed job is
\* requested no more while the others still are.
C19_PollScenario ==
  [][/\ \A t \in BagToSet(ticks) :
          Completes(t) =>
            \A i \in t.pending :
              \A j \in EntriesOf(t.procs[i].processingId) :
                processes[j].status = "in_progress" =>
                  /\ \A resp \in ProgressResponses :
                       FetchSettle(t, i, resp) =>
                         /\ processes'[j].status = "in_progress"
                         /\ processes'[j].percentage = resp.percentage.n
                  /\ \A resp \in CompletedResponses :
                       FetchSettle(t, i, resp) =>
                         /\ processes'[j].status = "completed"
                         /\ processes'[j].percentage = 100
     /\ \A t \in StartedTicks :
          IdsOf(t) = {processes'[k].processingId :
                        k \in {k \in DOMAIN processes' :
                                 processes'[k].status = "in_progress"}}]_vars

\* C19 witness: one job went through progress at 42 and is in_progress,
\* another is completed at 100, and the tick in flight requests the first
\* and not the second.
C19_Witness ==
  \E j, k \in DOMAIN processes : \E t \in BagToSet(ticks) :
    /\ processes[j].status = "completed"
    /\ processes[j].percentage = 100
    /\ processes[k].status = "in_progress"
    /\ processes[k].percentage = 42
    /\ processes[k].notificationId = 2
    /\ IdsOf(t) = {processes[k].processingId}

\* The notification ids of the entries of the store with one of the ids.
NotificationsOf(ids) ==
  {processes[j].notificationId :
     j \in {j \in DOMAIN processes : processes[j].processingId \in ids}}
    \ {NoNotification}

\* The step turns the notifications nids that exist into the info
\* notification that closes by itself, and leaves the others as they were.
Dismissed(nids) ==
  \A nid \in NotificationIds :
    notif'[nid] = IF nid \in nids /\ notif[nid].type # "none"
                    THEN [type |-> "info", autoClose |-> TRUE]
                    ELSE notif[nid]

\* C20: a removal deletes the entries of the id and leaves the others as
\* they were, in their order; a clear deletes every entry and does not
\* happen on an empty store; both turn the notification of each deleted
\* entry into an info notification that closes by itself, and leave the
\* notification in place.
C20_RemoveAndClear ==
  [][/\ \A id \in RemovableIds :
          (lastId' = lastId /\ Len(processes') <= Len(processes)
             /\ RemoveProcess(id)) =>
            /\ processes' = SelectSeq(processes,
                                      LAMBDA item : item.processingId # id)
            /\ Dismissed(NotificationsOf({id}))
     /\ (Len(processes') = 0 /\ ClearProcesses) =>
          /\ Len(processes) # 0
          /\ Dismissed(NotificationsOf(
               {processes[j].processingId : j \in DOMAIN processes}))]_vars

\* C20 witness: two jobs were tracked with their notifications, the store
\* is empty and both notifications are info notifications that close by
\* themselves.
C20_Witness ==
  /\ lastId = 2
  /\ Len(processes) = 0
  /\ \A nid \in NotificationIds :
       notif[nid] = [type |-> "info", autoClose |-> TRUE]

(***************************************************************************)
(* The submission: the form, handleSubmit up to its POST request, and the  *)
(* response of the request, FileUploader.tsx 197-302, beside the status    *)
(* requests that the polling effect starts when the store changes.         *)
(***************************************************************************)
\* Error notifications of a run.
MaxErrors == 1
\* POST requests that await their response at the same time.
MaxPosts == 1
\* Fields of the form, the URL aside, that differ from their first value.
MaxEdited == 2

\* What the user types or selects, per field (onChange, 548-829).
FieldValues ==
  [input |-> {W_empty, W_https \o W_host, W_http \o W_host, W_ftp \o W_host,
              << " " >> \o W_https \o W_host},
   collectionName |-> {W_manuales_collection, W_docs_2x},
   chunkingStrategy |-> {"recursive_character", "semantic"},
   chunkSize |-> {1000, 99, 5001},
   chunkOverlap |-> {200, 1000},
   maxFileSizeMb |-> {50, 1001},
   timeoutPerFile |-> {300, 29},
   embeddingModel |-> {W_embedding_001, W_blank},
   batchSize |-> {90, 0},
   retryAttempts |-> {3, 11}]

Edited(f) ==
  Cardinality({k \in DOMAIN f \ {"input"} : f[k] # DefaultForm[k]})

\* An onChange handler of the form: setInput, setChunkSize, ...
SetField(field, v) ==
  /\ Edited([form EXCEPT ![field] = v]) <= MaxEdited
  /\ form' = [form EXCEPT ![field] = v]
  /\ UNCHANGED << processes, storage, intervalRef, liveTimers, ticks, lastId,
                  notif, warnings, fired, normVars, loadVars, inflight,
                  errors, notFormVars >>

\* The notification of 200-205 and of 295-300.
ErrorNotification(title) ==
  [type |-> "error", title |-> title, autoClose |-> FALSE]

\* handleSubmit up to the await of 250: the validation, then the request.
HandleSubmit ==
  /\ IF validateConfig(form) # NoConfigError
       THEN /\ Len(errors) < MaxErrors
            /\ errors' = Append(errors, ErrorNotification("Error de Validacion"))
            /\ UNCHANGED inflight
       ELSE /\ inflight < MaxPosts
            /\ inflight' = inflight + 1
            /\ UNCHANGED errors
  /\ UNCHANGED << processes, storage, intervalRef, liveTimers, ticks, lastId,
                  notif, warnings, fired, normVars, loadVars, form,
                  notFormVars >>

\* The outcome of the request: fetch or res.json() rejected (threw), or a
\* response with res.ok and the success, processing_id and percentage of
\* its body.
SubmitResponse(threw, ok, success, id, pct) ==
  [threw |-> threw, ok |-> ok, success |-> success, processing_id |-> id,
   percentage |-> pct]

SubmitResponses ==
  {SubmitResponse(FALSE, ok, success, id, Num(0)) :
     ok \in BOOLEAN, success \in {True, False, Undefined}, id \in Ids}
    \cup {SubmitResponse(TRUE, FALSE, Undefined, Id_a, Num(0))}

\* A handleSubmit that does not look at res.ok.
SubmitSettleMutBody(resp) ==
  /\ inflight > 0
  /\ inflight' = inflight - 1
  /\ IF resp.threw \/ ~Truthy(resp.success)
       THEN /\ Len(errors) < MaxErrors
            /\ errors' = Append(errors,
                                ErrorNotification("Error al Iniciar Procesamiento"))
            /\ UNCHANGED << processes, storage, intervalRef, liveTimers, ticks,
                            lastId, notif, form >>
       ELSE /\ lastId < MaxSubmits
            /\ lastId' = lastId + 1
            /\ notif' = [notif EXCEPT ![lastId + 1] =
                            [type |-> "processing", autoClose |-> FALSE]]
            /\ Render(AddProcess(processes,
                                 NewProcess(resp.processing_id, resp.percentage,
                                            lastId + 1)),
                      FALSE, TRUE, ticks)
            /\ form' = [form EXCEPT !.input = W_empty]
            /\ UNCHANGED errors
  /\ UNCHANGED << warnings, fired, normVars, loadVars, notFormVars >>

\* handleSubmit from the response on, FileUploader.tsx 256-301.
SubmitSettle(resp) ==
  /\ inflight > 0
  /\ inflight' = inflight - 1
  /\ IF resp.threw \/ ~resp.ok \/ ~Truthy(resp.success)
       THEN /\ Len(errors) < MaxErrors
            /\ errors' = Append(errors,
                                ErrorNotification("Error al Iniciar Procesamiento"))
            /\ UNCHANGED << processes, storage, intervalRef, liveTimers, ticks,
                            lastId, notif, form >>
       ELSE /\ lastId < MaxSubmits
            /\ lastId' = lastId + 1
            /\ notif' = [notif EXCEPT ![lastId + 1] =
                            [type |-> "processing", autoClose |-> FALSE]]
            /\ Render(AddProcess(processes,
                                 NewProcess(resp.processing_id, resp.percentage,
                                            lastId + 1)),
                      FALSE, TRUE, ticks)
            /\ form' = [form EXCEPT !.input = W_empty]
            /\ UNCHANGED errors
  /\ UNCHANGED << warnings, fired, normVars, loadVars, notFormVars >>

\* The status responses of the runs with a form.
FormResponses == {R_completed}

NextSubmit ==
  \/ \E field \in DOMAIN FieldValues : \E v \in FieldValues[field] :
       SetField(field, v)
  \/ HandleSubmit
  \/ \E resp \in SubmitResponses : SubmitSettle(resp)
  \/ \E t \in BagToSet(ticks) : \E i \in t.pending, resp \in FormResponses :
       FetchSettle(t, i, resp)

\* The first render on an empty storage.
InitSubmit ==
  /\ processes = LoadProcesses(NoKey)
  /\ storage = Persist(processes)
  /\ intervalRef = EffectTimer(hasActiveProcesses(processes), NoTimer).ref
  /\ liveTimers = EffectTimer(hasActiveProcesses(processes), NoTimer).live
  /\ ticks = pollStatuses(processes, EmptyBag)
  /\ lastId = 0
  /\ notif = [nid \in NotificationIds |-> NoNotif]
  /\ warnings = 0
  /\ fired = [nid \in NotificationIds |-> 0]
  /\ normIn = Undefined
  /\ normOut = "none"
  /\ loadIn = NoKey
  /\ loadOut = NotLoaded
  /\ AuxInit

SpecSubmit == InitSubmit /\ [][NextSubmit]_vars

\* What the validation rejects: a collection name that is not made of
\* letters, digits, "_" and "-"; for a strategy with chunks, a chunk size
\* outside 100..5000 or an overlap outside 0..chunk size - 1; a processing
\* or embedding option out of its range; an embedding model of blanks; a
\* URL that does not start with http:// or https://.
Rejected(f) ==
  \/ f.collectionName = << >>
  \/ \E i \in DOMAIN f.collectionName : f.collectionName[i] \notin NameChars
  \/ /\ f.chunkingStrategy \in {"recursive_character", "fixed_size"}
     /\ \/ f.chunkSize \notin 100 .. 5000
        \/ f.chunkOverlap \notin 0 .. (f.chunkSize - 1)
  \/ f.maxFileSizeMb \notin 1 .. 1000
  \/ f.timeoutPerFile \notin 30 .. 3600
  \/ f.batchSize \notin 1 .. 1000
  \/ f.retryAttempts \notin 1 .. 10
  \/ \A i \in DOMAIN f.embeddingModel : f.embeddingModel[i] = " "
  \/ /\ ~(Len(f.input) >= 7 /\ SubSeq(f.input, 1, 7) = W_http)
     /\ ~(Len(f.input) >= 8 /\ SubSeq(f.input, 1, 8) = W_https)

\* The poller: the timer and the invocations in flight.
pollerVars == << intervalRef, liveTimers, ticks >>

\* C21: when the form is one the validation rejects, handleSubmit issues
\* no POST request, leaves the store, its persisted copy and the poller as
\* they are, touches no notification of a job, and adds exactly one error
\* notification that stays until it is closed.
C21_ValidationBlocks ==
  [][HandleSubmit /\ Rejected(form)
       => /\ inflight' = inflight
          /\ UNCHANGED << processes, storage, pollerVars, lastId, notif,
                          warnings >>
          /\ Len(errors') = Len(errors) + 1
          /\ SubSeq(errors', 1, Len(errors)) = errors
          /\ errors'[Len(errors')].type = "error"
          /\ ~errors'[Len(errors')].autoClose]_vars

\* A rejected form was submitted while the poller had requests in flight.
C21_Witness ==
  /\ Rejected(form)
  /\ validateConfig(form) = "url"
  /\ form.input # << >>
  /\ errors # << >>
  /\ errors[Len(errors)].title = "Error de Validacion"
  /\ inflight = 0
  /\ ticks # EmptyBag
  /\ processes # << >>

\* The response of a POST that failed: the request threw, the status is
\* not 2xx, or the body says success false.
Failing(resp) == resp.threw \/ ~resp.ok \/ resp.success = False

Succeeding(resp) == ~resp.threw /\ resp.ok /\ resp.success = True

\* The processing ids of the store.
StoreIds(procs) == {procs[i].processingId : i \in DOMAIN procs}

\* C22: a failing response of the POST leaves the store, its persisted
\* copy and the poller as they are, adds one error notification that stays
\* until it is closed, and no new request is made for it; and an entry
\* comes into the store only with a successful response.
C22_SubmissionFailure ==
  [][/\ \A resp \in SubmitResponses :
          SubmitSettle(resp) /\ Failing(resp)
            => /\ UNCHANGED << processes, storage, pollerVars, lastId, notif,
                               warnings >>
               /\ inflight' = inflight - 1
               /\ errors' = Append(errors,
                                   ErrorNotification("Error al Iniciar Procesamiento"))
               /\ ~errors'[Len(errors')].autoClose
     /\ (StoreIds(processes') \ StoreIds(processes) # {}
           \/ Len(processes') > Len(processes))
          => \E resp \in SubmitResponses :
               Succeeding(resp) /\ SubmitSettle(resp)]_vars

\* A POST was answered with a failure while the poller had requests in
\* flight for an earlier job.
C22_Witness ==
  /\ errors # << >>
  /\ errors[Len(errors)].title = "Error al Iniciar Procesamiento"
  /\ inflight = 0
  /\ ticks # EmptyBag
  /\ Len(processes) = 1

(***************************************************************************)
(* The poller under fair scheduling, with no submission: an interval that  *)
(* is alive fires, every status request settles, and a job that is         *)
(* requested again and again is answered with a terminal status at some    *)
(* time.                                                                   *)
(***************************************************************************)
\* The status responses of the fair runs: progress, completed, failed.
LiveResponses == {R_progress, R_completed, R_failed}

TerminalResponses ==
  LiveResponses \cap (ErrorResponses \cup CompletedResponses)

\* The component is mounted on the two jobs in progress that an earlier
\* mounting left in the storage.
InitLive ==
  LET loaded == LoadProcesses(Persist(<< NewProcess(Id_a, Num(42), 1),
                                         NewProcess(Id_b, Num(0), 2) >>))
  IN /\ processes = loaded
     /\ storage = Persist(loaded)
     /\ intervalRef = EffectTimer(hasActiveProcesses(loaded), NoTimer).ref
     /\ liveTimers = EffectTimer(hasActiveProcesses(loaded), NoTimer).live
     /\ ticks = pollStatuses(loaded, EmptyBag)
     /\ lastId = 2
     /\ notif = [nid \in NotificationIds |->
                   [type |-> "processing", autoClose |-> FALSE]]
     /\ warnings = 0
     /\ fired = [nid \in NotificationIds |-> 0]
     /\ normIn = Undefined
     /\ normOut = "none"
     /\ loadIn = NoKey
     /\ loadOut = NotLoaded
     /\ AuxInit

\* A status request settles.
SettleAny ==
  \E t \in BagToSet(ticks) : \E i \in t.pending, resp \in LiveResponses :
    FetchSettle(t, i, resp)

\* A status request for the job id is answered with a terminal status.
SettleTerminal(id) ==
  \E t \in BagToSet(ticks) : \E i \in t.pending, resp \in TerminalResponses :
    /\ t.procs[i].processingId = id
    /\ FetchSettle(t, i, resp)

NextLive ==
  \/ TimerFire
  \/ SettleAny
  \/ \E id \in Ids : RemoveProcess(id)

Fairness ==
  /\ WF_vars(TimerFire)
  /\ WF_vars(SettleAny)
  /\ \A id \in Ids : SF_vars(SettleTerminal(id))

SpecLive == InitLive /\ [][NextLive]_vars /\ Fairness

\* The poller is idle: no job in progress, no timer.
Idle ==
  /\ ~hasActiveProcesses(processes)
  /\ ~intervalRef
  /\ liveTimers = 0

\* C23: under fair scheduling and with no new submission, the store comes
\* to hold no job in progress and the poller to be idle without a timer,
\* and it stays so; an idle poller leaves that state only by a step that
\* puts a job in progress into the store.
C23_SelfTerminates ==
  /\ <>[]Idle
  /\ [][Idle /\ ~Idle' => hasActiveProcesses(processes')]_vars

\* Two jobs were polled to the end and the poller went idle.
C23_Witness ==
  /\ Idle
  /\ Len(processes) = 2
  /\ \A i \in DOMAIN processes : processes[i].status \in Terminal
  /\ \E i \in DOMAIN processes : processes[i].percentage = 100
  /\ ticks = EmptyBag

(***************************************************************************)
(* The component until and after it is unmounted: the cleanup of the       *)
(* polling effect, FileUploader.tsx 518-523, and the requests that settle  *)
(* afterwards.                                                             *)
(***************************************************************************)
\* The component is unmounted: React runs the cleanup of the last run of
\* the polling effect. The requests in flight are not cancelled.
Unmount ==
  /\ mounted
  /\ mounted' = FALSE
  /\ LET ts == EffectCleanup(hasActiveProcesses(processes),
                             [ref |-> intervalRef, live |-> liveTimers])
     IN /\ intervalRef' = ts.ref
        /\ liveTimers' = ts.live
  /\ UNCHANGED << processes, storage, ticks, lastId, notif, warnings, fired,
                  normVars, loadVars, notMountVars >>

\* A request settles after the unmount: the calls on the notification
\* context are made as before (433-496), and the setProcesses of 500 on the
\* unmounted component does nothing.
SettleUnmounted(t, i, resp) ==
  LET cs == CallsOf(t.procs[i], resp)
      t2 == Settled(t, i, resp)
  IN /\ ~mounted
     /\ CaughtOf[resp] => warnings < MaxWarnings
     /\ notif' = NotifAfter(notif, cs)
     /\ warnings' = WarningsAfter(warnings, cs)
     /\ fired' = Fired(fired, cs)
     /\ ticks' = IF t2.pending # {}
                   THEN (ticks (-) SetToBag({t})) (+) SetToBag({t2})
                   ELSE ticks (-) SetToBag({t})
     /\ UNCHANGED << processes, storage, intervalRef, liveTimers, lastId,
                     normVars, loadVars, auxVars >>

\* The status responses of the runs with an unmount.
MountResponses == {R_fail, R_progress, R_completed}

NextMount ==
  \/ mounted /\ \E id \in Ids, pct \in SubmitPercentages : Submit(id, pct)
  \/ TimerFire
  \/ mounted /\ \E t \in BagToSet(ticks) :
                  \E i \in t.pending, resp \in MountResponses :
                    FetchSettle(t, i, resp)
  \/ mounted /\ ClearProcesses
  \/ mounted /\ ChangeBaseUrl
  \/ Unmount
  \/ \E t \in BagToSet(ticks) : \E i \in t.pending, resp \in MountResponses :
       SettleUnmounted(t, i, resp)

SpecMount == Init /\ [][NextMount]_vars

\* C24: at most one interval is alive, and it is the one the ref holds;
\* none is alive when no job is in progress or after the unmount; and a
\* step that sets an interval clears the one that was alive before.
C24_TimerNeverLeaks ==
  /\ [](/\ liveTimers \in {0, 1}
        /\ intervalRef <=> liveTimers = 1
        /\ ~hasActiveProcesses(processes) => liveTimers = 0
        /\ ~mounted => liveTimers = 0)
  /\ [][ChangeBaseUrl /\ liveTimers = 1 => liveTimers' = 1]_vars

\* The component was unmounted while a job was in progress and overlapping
\* invocations of pollStatuses were in flight.
C24_Witness ==
  /\ ~mounted
  /\ liveTimers = 0
  /\ hasActiveProcesses(processes)
  /\ BagCardinality(ticks) = MaxTicks

(***************************************************************************)
(* The collection names of the configuration panel: one call of            *)
(* normalizeCollectionNames, ConfigurationPanel.tsx 36-65, on a payload of *)
(* GET /collections.                                                       *)
(***************************************************************************)
\* Entries of an array of a payload.
MaxEntries == 2

\* JSON arrays and objects; an object is the function of its fields.
JArray(items) == [k |-> "array", items |-> items]
JObject(fields) == [k |-> "object", fields |-> fields]

\* v?.key: the field of an object, undefined for any other value.
Get(v, key) ==
  IF v.k = "object" /\ key \in DOMAIN v.fields THEN v.fields[key]
  ELSE Undefined

\* [payload, payload?.data, payload?.collections,
\*  payload?.data?.collections], 41-46.
Candidates(payload) ==
  << payload, Get(payload, "data"), Get(payload, "collections"),
     Get(Get(payload, "data"), "collections") >>

\* Array.prototype.find(Array.isArray), 46.
FindArray(cands) ==
  LET hits == SelectSeq(cands, LAMBDA c : c.k = "array")
  IN IF hits = << >> THEN Undefined ELSE Head(hits)

\* The callback of map, 53-61: the trimmed text of a string or of the name
\* of an object, null for anything else.
NameOfItem(item) ==
  IF item.k = "string" THEN Str(Trim(item.s))
  ELSE IF item.k = "object" /\ Get(item, "name").k = "string"
    THEN Str(Trim(Get(item, "name").s))
  ELSE Null

\* Array.from(new Set(items)), 64: the first occurrence of every element.
RECURSIVE Unique(_)
Unique(items) ==
  IF items = << >> THEN << >>
  ELSE << Head(items) >>
         \o Unique(SelectSeq(Tail(items), LAMBDA x : x # Head(items)))

\* A normalizeCollectionNames that returns the names as often as they come.
normalizeCollectionNamesMutNoSet(payload) ==
  LET candidates == FindArray(Candidates(payload))
  IN IF candidates.k # "array" THEN << >>
     ELSE LET mapped == [i \in DOMAIN candidates.items |->
                           NameOfItem(candidates.items[i])]
              items == SelectSeq(mapped, LAMBDA x : Truthy(x) /\ TestName(x.s))
          IN [i \in DOMAIN items |-> items[i].s]

\* normalizeCollectionNames, ConfigurationPanel.tsx 40-65.
normalizeCollectionNames(payload) ==
  LET candidates == FindArray(Candidates(payload))
  IN IF candidates.k # "array" THEN << >>
     ELSE LET mapped == [i \in DOMAIN candidates.items |->
                           NameOfItem(candidates.items[i])]
              items == SelectSeq(mapped, LAMBDA x : Truthy(x) /\ TestName(x.s))
          IN Unique([i \in DOMAIN items |-> items[i].s])

W_padded == << " " >> \o W_docs_1 \o << " " >>

\* What the backend puts into an array of collections.
Entries ==
  {Str(W_docs_1), Str(W_docs_2x), Str(W_padded), Str(W_manuales_collection),
   Str(W_empty), Str(W_blank), Null, Num(7),
   JObject([name |-> Str(W_docs_1)]),
   JObject([name |-> Str(W_padded)]),
   JObject([name |-> Num(7)]),
   JObject([other |-> Str(W_docs_1)])}

EntryArrays ==
  {JArray(items) : items \in UNION {[1 .. n -> Entries] : n \in 0 .. MaxEntries}}

\* Arrays for the payloads that hold more than one.
FewArrays ==
  {JArray(<< >>), JArray(<< Str(W_docs_1) >>),
   JArray(<< Str(W_manuales_collection) >>)}

\* {"data":{"collections":[{"name":"docs_1"},"docs 2!"]}}
ScenarioPayload ==
  JObject([data |->
    JObject([collections |->
      JArray(<< JObject([name |-> Str(W_docs_1)]), Str(W_docs_2x) >>)])])

CollPayloads ==
  EntryArrays
    \cup {JObject([data |-> a]) : a \in EntryArrays}
    \cup {JObject([collections |-> a]) : a \in EntryArrays}
    \cup {JObject([data |-> JObject([collections |-> a])]) : a \in EntryArrays}
    \cup {JObject([data |-> a, collections |-> b]) : a \in FewArrays, b \in FewArrays}
    \cup {JObject([data |-> JObject([collections |-> a]), collections |-> b]) :
            a \in FewArrays, b \in FewArrays}
    \cup {JObject([data |-> v, collections |-> a]) :
            v \in {Null, Str(W_docs_1)}, a \in FewArrays}
    \cup {Undefined, Null, Str(W_docs_1), Num(7),
          JObject([other |-> JArray(<< Str(W_docs_1) >>)]),
          JObject([data |-> Null]),
          JObject([collections |-> JObject([name |-> Str(W_docs_1)])]),
          JObject([data |-> JObject([other |-> JArray(<< Str(W_docs_1) >>)])])}

InitColl ==
  /\ processes = << >>
  /\ storage = NoKey
  /\ intervalRef = FALSE
  /\ liveTimers = 0
  /\ ticks = EmptyBag
  /\ lastId = 0
  /\ notif = [nid \in NotificationIds |-> NoNotif]
  /\ warnings = 0
  /\ fired = [nid \in NotificationIds |-> 0]
  /\ normIn = Undefined
  /\ normOut = "none"
  /\ loadIn = NoKey
  /\ loadOut = NotLoaded
  /\ FormInit
  /\ MountInit
  /\ ConfigInit
  /\ collIn \in CollPayloads
  /\ collOut = NoNames

NormalizeNames ==
  /\ ~collOut.done
  /\ collOut' = Names(normalizeCollectionNames(collIn))
  /\ UNCHANGED << processes, storage, intervalRef, liveTimers, ticks, lastId,
                  notif, warnings, fired, normVars, loadVars, formVars,
                  mountVars, configVars, collIn >>

NextColl == NormalizeNames

SpecColl == InitColl /\ [][NextColl]_vars

\* The entries of the first array of the payload, in the order payload,
\* payload.data, payload.collections, payload.data.collections; none when
\* there is no array.
FirstArrayItems(payload) ==
  IF payload.k = "array" THEN payload.items
  ELSE IF payload.k # "object" THEN << >>
  ELSE IF "data" \in DOMAIN payload.fields /\ payload.fields.data.k = "array"
    THEN payload.fields.data.items
  ELSE IF "collections" \in DOMAIN payload.fields
            /\ payload.fields.collections.k = "array"
    THEN payload.fields.collections.items
  ELSE IF "data" \in DOMAIN payload.fields
            /\ payload.fields.data.k = "object"
            /\ "collections" \in DOMAIN payload.fields.data.fields
            /\ payload.fields.data.fields.collections.k = "array"
    THEN payload.fields.data.fields.collections.items
  ELSE << >>

HasArray(payload) == \E i \in 1 .. 4 : Candidates(payload)[i].k = "array"

\* An entry with a name: a string, or an object with a string name.
HasName(e) ==
  \/ e.k = "string"
  \/ e.k = "object" /\ "name" \in DOMAIN e.fields /\ e.fields.name.k = "string"

RawName(e) == IF e.k = "string" THEN e.s ELSE e.fields.name.s

\* names are the names of the entries arr as Clean reads them: those that
\* match ^[A-Za-z0-9_-]+$, each once, in the order of their first
\* occurrence.
NamesOf(names, arr, Clean(_)) ==
  LET kept == {p \in DOMAIN arr : HasName(arr[p]) /\ TestName(Clean(RawName(arr[p])))}
      First(n) == CHOOSE p \in kept :
                    /\ Clean(RawName(arr[p])) = n
                    /\ \A q \in kept : Clean(RawName(arr[q])) = n => p <= q
  IN /\ \A i, j \in DOMAIN names : names[i] = names[j] => i = j
     /\ {names[i] : i \in DOMAIN names} = {Clean(RawName(arr[p])) : p \in kept}
     /\ \A i, j \in DOMAIN names : i < j => First(names[i]) < First(names[j])

AsWritten(s) == s

\* C25: the names returned are those of the string entries and of the
\* objects with a string name in the first array of the payload, as they
\* are written, that match ^[A-Za-z0-9_-]+$, each once, in the order of
\* their first occurrence; no array gives the empty list, and the payload
\* of the scenario gives ["docs_1"].
C25_CollectionNames ==
  collOut.done
    => /\ NamesOf(collOut.names, FirstArrayItems(collIn), AsWritten)
       /\ ~HasArray(collIn) => collOut.names = << >>
       /\ collIn = ScenarioPayload => collOut.names = << W_docs_1 >>

\* C25, amended: the same, with every name read without the white space
\* around it.
C25_TrimmedNames ==
  collOut.done
    => /\ NamesOf(collOut.names, FirstArrayItems(collIn), Trim)
       /\ ~HasArray(collIn) => collOut.names = << >>
       /\ collIn = ScenarioPayload => collOut.names = << W_docs_1 >>

\* The payload of the scenario was normalized.
C25_Witness ==
  /\ collOut.done
  /\ collIn = ScenarioPayload
  /\ collOut.names = << W_docs_1 >>

\* A status response that signals the failure and the completion of the
\* job: success false with a status word of completion or a percentage of
\* 100 or more, or a status word of failure with success true and a
\* percentage of 100 or more.
SignalsBoth(resp) ==
  /\ resp.transport = "ok"
  /\ resp.percentage.k = "number"
  /\ \/ /\ resp.success = False
        /\ IsWordOf(resp.status, CompletedWords) \/ resp.percentage.n >= 100
     \/ /\ IsWordOf(resp.status, ErrorWords)
        /\ resp.success = True
        /\ resp.percentage.n >= 100

\* C26: a response that signals both failure and completion is handled as
\* a failure: the entries of the job get status error and its notification
\* becomes the error notification; and the handling of no response makes
\* both a success and an error transition.
C26_FailureFirst ==
  [][\A t \in BagToSet(ticks) :
       Leaves(t) =>
         \A i \in t.pending : \A resp \in ReportedResponses :
           FetchSettle(t, i, resp) =>
             /\ SignalsBoth(resp) =>
                  /\ UpdateOf(t.procs[i], resp).status = "error"
                  /\ t.pending = {i} =>
                       \A j \in EntriesOf(t.procs[i].processingId) :
                         j \in DOMAIN processes' /\ processes'[j].status = "error"
                  /\ (t.procs[i].notificationId # NoNotification
                        /\ notif[t.procs[i].notificationId].type # "none") =>
                       notif'[t.procs[i].notificationId] =
                         [type |-> "error", autoClose |-> FALSE]
             /\ LET cs == CallsOf(t.procs[i], resp)
                IN /\ Len(SelectSeq(cs, IsBridge)) <= 1
                   /\ \A nid \in NotificationIds :
                        fired'[nid] # fired[nid] =>
                          /\ nid = t.procs[i].notificationId
                          /\ FiredOnceMore(nid)]_vars

\* A response with success false, the status "done" and the percentage 137
\* or with success true, the status "FAILED" and the percentage 137 was
\* merged: the job is in error at 137 and its notification the error
\* notification.
C26_Witness ==
  /\ \E resp \in ReportedResponses : SignalsBoth(resp)
  /\ Len(processes) = 1
  /\ processes[1].status = "error"
  /\ processes[1].percentage = 137
  /\ processes[1].notificationId # NoNotification
  /\ notif[processes[1].notificationId] = [type |-> "error", autoClose |-> FALSE]

\* C27: an entry that a poll result set to completed has the percentage
\* 100, and no step that keeps the job changes the percentage, the stage or
\* the message of a completed entry, the merge of an overlapping tick
\* included.
C27_CompletedFrozen ==
  /\ [](\A j \in DOMAIN processes :
          processes[j].status = "completed" => processes[j].percentage = 100)
  /\ [][\A j \in DOMAIN processes : \A k \in DOMAIN processes' :
          (SameJob(j, k) /\ processes[j].status = "completed")
            => /\ processes'[k].percentage = processes[j].percentage
               /\ processes'[k].stage = processes[j].stage
               /\ processes'[k].message = processes[j].message]_vars

\* C28: when a job is no longer in the store and its notification is the
\* "tracking stopped" info notification, a response to a request for it
\* that was still in flight leaves that notification as it is and adds no
\* notification.
C28_LateResponseDiscarded ==
  [][\A t \in BagToSet(ticks) :
       Leaves(t) =>
         \A i \in t.pending : \A resp \in Responses :
           (/\ EntriesOf(t.procs[i].processingId) = {}
            /\ t.procs[i].notificationId # NoNotification
            /\ notif[t.procs[i].notificationId] = [type |-> "info", autoClose |-> TRUE]
            /\ FetchSettle(t, i, resp))
             => /\ notif'[t.procs[i].notificationId] =
                     notif[t.procs[i].notificationId]
                /\ warnings' = warnings]_vars

\* The fields of an entry that are set when it is created.
Identity(p) ==
  << p.processingId, p.collectionName, p.sourceUrl, p.notificationId >>

MaxSaved == 2

\* The values the configuration panel hands to the setters
\* (ConfigurationPanel.tsx 272-302): a collection name that passed its
\* validation, a positive integer, the flags, the texts as typed, a theme.
SettingValues ==
  [DEFAULT_COLLECTION |-> {Str(W_manuales_collection), Str(W_docs_1)},
   DEFAULT_TOP_K |-> {Num(5), Num(1), Num(42)},
   USE_RERANKING |-> {True, False},
   USE_QUERY_REWRITING |-> {True, False},
   FORCE_REBUILD |-> {True, False},
   INITIAL_BOT_MESSAGE |-> {Str(W_hola), Str(W_empty)},
   DESCRIPTION |-> {Str(W_preguntame), Str(W_docs_2x), Str(W_empty)},
   INPUT_PLACEHOLDER |-> {Str(W_escribe), Str(W_empty)},
   PROJECT_NAME |-> {Str(W_asistente), Str(W_blank)},
   ACTIVE_THEME |-> {Str(W_blue), Str(W_green), Str(W_violet)}]

Saved(store) == {key \in DOMAIN store : store[key] # Null}

\* setDefaultCollection .. setActiveTheme, 176-279: the field of APP_CONFIG
\* and the key of localStorage.
SetSetting(key, v) ==
  /\ Cardinality(Saved(configStore) \cup {key}) <= MaxSaved
  /\ config' = [config EXCEPT ![key] = v]
  /\ configStore' = [configStore EXCEPT ![key] = Str(TextOf(v))]
  /\ UNCHANGED << processes, storage, intervalRef, liveTimers, ticks, lastId,
                  notif, warnings, fired, normVars, loadVars, formVars,
                  mountVars, collVars >>

\* The page is loaded again: the module starts from its own values and
\* synchronises with localStorage.
Reload ==
  /\ config' = ModuleLoad(configStore)
  /\ UNCHANGED << processes, storage, intervalRef, liveTimers, ticks, lastId,
                  notif, warnings, fired, normVars, loadVars, formVars,
                  mountVars, collVars, configStore >>

InitConfig ==
  /\ processes = << >>
  /\ storage = NoKey
  /\ intervalRef = FALSE
  /\ liveTimers = 0
  /\ ticks = EmptyBag
  /\ lastId = 0
  /\ notif = [nid \in NotificationIds |-> NoNotif]
  /\ warnings = 0
  /\ fired = [nid \in NotificationIds |-> 0]
  /\ normIn = Undefined
  /\ normOut = "none"
  /\ loadIn = NoKey
  /\ loadOut = NotLoaded
  /\ AuxInit

NextConfig ==
  \/ \E key \in DOMAIN SettingValues : \E v \in SettingValues[key] :
       SetSetting(key, v)
  \/ Reload

SpecConfig == InitConfig /\ [][NextConfig]_vars

\* C30: a setter makes its getter return the value and changes no other
\* field of APP_CONFIG and no other key of localStorage, and a reload of
\* the module leaves every getter with the value it returned before: the
\* value last set, or the value of the module for a setting never set.
C30_SettingsSurvive ==
  [][/\ \A key \in DOMAIN SettingValues : \A v \in SettingValues[key] :
          SetSetting(key, v) =>
            /\ config'[key] = v
            /\ \A other \in DOMAIN config \ {key} :
                 /\ config'[other] = config[other]
                 /\ configStore'[other] = configStore[other]
     /\ Reload => config' = config]_vars

====
